---------------------------- MODULE Spec2Model ----------------------------
(***************************************************************************)
(* ResoBotMcp: the WebSocket RPC transport (src/gateway/WebSocketRpc.ts)   *)
(* and its FlatKV codec (src/gateway/FlatKV.ts).                           *)
(*                                                                         *)
(* A string is a sequence of symbols.  A symbol is either a character      *)
(* listed in CharCode (named by a TLA+ string, with its code point) or a   *)
(* word: a run of URI-unreserved ASCII characters ([A-Za-z0-9._-]) that    *)
(* every codec function copies unchanged.  A FlatRecord is the sequence    *)
(* of its <<key, value>> entries in insertion order, keys unique.          *)
(***************************************************************************)
EXTENDS Integers, Sequences, FiniteSets, TLC

----------------------------------------------------------------------------
(* Bounds of the model *)

MaxCalls == 2
MaxConns == 2
MaxIds == 2

----------------------------------------------------------------------------
(* Characters *)

US == "US"
GS == "GS"
RS == "RS"
PCT == "%"
SP == " "

\* The ASCII characters by code point (Ascii[b + 1] is the character of code b);
\* control characters go by their names.
Ascii == <<
    "NUL", "SOH", "STX", "ETX", "EOT", "ENQ", "ACK", "BEL",
    "BS", "HT", "LF", "VT", "FF", "CR", "SO", "SI",
    "DLE", "DC1", "DC2", "DC3", "DC4", "NAK", "SYN", "ETB",
    "CAN", "EM", "SUB", "ESC", "FS", "GS", "RS", "US",
    " ", "!", "\"", "#", "$", "%", "&", "'",
    "(", ")", "*", "+", ",", "-", ".", "/",
    "0", "1", "2", "3", "4", "5", "6", "7",
    "8", "9", ":", ";", "<", "=", ">", "?",
    "@", "A", "B", "C", "D", "E", "F", "G",
    "H", "I", "J", "K", "L", "M", "N", "O",
    "P", "Q", "R", "S", "T", "U", "V", "W",
    "X", "Y", "Z", "[", "\\", "]", "^", "_",
    "GRAVE", "a", "b", "c", "d", "e", "f", "g",
    "h", "i", "j", "k", "l", "m", "n", "o",
    "p", "q", "r", "s", "t", "u", "v", "w",
    "x", "y", "z", "{", "|", "}", "~", "DEL"
>>

HexDigits == <<"0", "1", "2", "3", "4", "5", "6", "7", "8", "9", "A", "B", "C", "D", "E", "F">>

\* the replacement character a UTF-8 decoder yields for an invalid byte
REPLACEMENT == "U+FFFD"

\* Characters beyond ASCII, by code point: a two-byte character and a lone
\* surrogate (a UTF-16 code unit that is no character on its own).
E_ACUTE == "U+00E9"
LONE_SURROGATE == "U+D800"

\* Buffer.from(ch, 'utf8') of a character beyond ASCII; a lone surrogate is
\* written as the bytes of U+FFFD
Utf8Bytes ==
    [ch \in {E_ACUTE, LONE_SURROGATE, REPLACEMENT} |->
        IF ch = E_ACUTE THEN <<195, 169>> ELSE <<239, 191, 189>>]

\* Buffer.from([ch.charCodeAt(0)]).toString('utf8') of a character beyond
\* ASCII: the low byte of its code unit, decoded on its own
LowByteChar ==
    [ch \in {E_ACUTE, LONE_SURROGATE, REPLACEMENT} |->
        IF ch = LONE_SURROGATE THEN "NUL" ELSE REPLACEMENT]

IsChar(sym) == \E i \in 1..128 : Ascii[i] = sym

\* ch.charCodeAt(0)
CodeOf(sym) == (CHOOSE i \in 1..128 : Ascii[i] = sym) - 1

\* String.fromCharCode(b), b < 128
CharOfCode(b) == Ascii[b + 1]

HexLower == <<"0", "1", "2", "3", "4", "5", "6", "7", "8", "9", "a", "b", "c", "d", "e", "f">>

IsHex(sym) == \E i \in 1..16 : HexDigits[i] = sym \/ HexLower[i] = sym

HexValue(sym) == (CHOOSE i \in 1..16 : HexDigits[i] = sym \/ HexLower[i] = sym) - 1

\* '%' + b.toString(16).toUpperCase().padStart(2, '0')
PercentByte(b) == <<PCT, HexDigits[(b \div 16) + 1], HexDigits[(b % 16) + 1]>>

\* A symbol that is not a listed character is a word of unreserved characters.
IsUnreserved(sym) ==
    \/ ~IsChar(sym)
    \/ LET b == CodeOf(sym)
       IN \/ (b >= 48 /\ b <= 57) \/ (b >= 65 /\ b <= 90) \/ (b >= 97 /\ b <= 122)
          \/ b \in {45, 95, 46, 33, 126, 42, 39, 40, 41}

----------------------------------------------------------------------------
(* FlatKV codec *)

\* What an operator yields where the code throws.
Thrown(message) == [ok |-> FALSE, message |-> message]

\* What it yields where the code returns v.
Ok(v) == [ok |-> TRUE, value |-> v]

needsEncodingByte(byte) ==
    \/ byte = 37
    \/ byte = 31
    \/ byte = 29
    \/ byte = 30
    \/ byte < 32
    \/ byte > 126

\* the escapes of bytes that all need encoding
RECURSIVE PercentBytes(_)
PercentBytes(bytes) ==
    IF bytes = <<>> THEN <<>>
    ELSE PercentByte(Head(bytes)) \o PercentBytes(Tail(bytes))

RECURSIVE encodeValue(_)
encodeValue(value) ==
    IF value = <<>> THEN <<>>
    ELSE LET sym == Head(value)
             out == IF sym \in DOMAIN Utf8Bytes
                    THEN PercentBytes(Utf8Bytes[sym])
                    ELSE IF IsChar(sym) /\ needsEncodingByte(CodeOf(sym))
                    THEN PercentByte(CodeOf(sym))
                    ELSE <<sym>>
         IN out \o encodeValue(Tail(value))

\* Buffer.from(bytes).toString('utf8') of one byte of an ASCII text
Utf8Char(byte) == IF byte < 128 THEN CharOfCode(byte) ELSE REPLACEMENT

\* the white space Number.parseInt skips, among the ASCII characters
WhiteSpace == {"HT", "LF", "VT", "FF", "CR", SP}

\* Number.parseInt(h1 + h2, 16) as a set, empty for NaN: white space and a
\* sign at the front are skipped, then the prefix 0x, and the hexadecimal digits
\* that follow are read up to the first character that is none
parseInt16(h1, h2) ==
    IF h1 \in WhiteSpace \/ h1 = "+" THEN (IF IsHex(h2) THEN {HexValue(h2)} ELSE {})
    ELSE IF h1 = "-" THEN (IF IsHex(h2) THEN {-HexValue(h2)} ELSE {})
    ELSE IF h1 = "0" /\ h2 \in {"x", "X"} THEN {}
    ELSE IF ~IsHex(h1) THEN {}
    ELSE IF IsHex(h2) THEN {16 * HexValue(h1) + HexValue(h2)}
    ELSE {HexValue(h1)}

\* The byte Buffer.from(bytes) holds for the '%' at index i, -1 where the code
\* throws: h1 or h2 is missing, or the number parsed is NaN.
EscapeAt(value, i) ==
    IF i + 2 <= Len(value) /\ value[i] = PCT
          /\ parseInt16(value[i + 1], value[i + 2]) # {}
    THEN (CHOOSE byte \in parseInt16(value[i + 1], value[i + 2]) : TRUE) % 256
    ELSE -1

\* the characters beyond ASCII whose UTF-8 bytes the escapes from index i on push
Utf8At(value, i) ==
    {ch \in {E_ACUTE, REPLACEMENT} :
        \A k \in 1..Len(Utf8Bytes[ch]) : EscapeAt(value, i + 3 * (k - 1)) = Utf8Bytes[ch][k]}

\* The loop of decodeValue from index i on, with Buffer.from(bytes).toString('utf8')
\* applied as the bytes are pushed: out holds the characters decoded so far.
RECURSIVE decodeValueFrom(_, _, _)
decodeValueFrom(value, i, out) ==
    IF i > Len(value) THEN Ok(out)
    ELSE IF value[i] = PCT
         THEN LET byte == EscapeAt(value, i)
              IN IF byte = -1 THEN Thrown(<<"Invalid", SP, "percent-encoding">>)
                 ELSE IF byte >= 128 /\ Utf8At(value, i) # {}
                 THEN LET ch == CHOOSE u \in Utf8At(value, i) : TRUE
                      IN decodeValueFrom(value, i + 3 * Len(Utf8Bytes[ch]), Append(out, ch))
                 ELSE decodeValueFrom(value, i + 3, Append(out, Utf8Char(byte)))
         ELSE IF value[i] \in DOMAIN LowByteChar
         THEN decodeValueFrom(value, i + 1, Append(out, LowByteChar[value[i]]))
         ELSE decodeValueFrom(value, i + 1, Append(out, value[i]))

decodeValue(value) == decodeValueFrom(value, 1, <<>>)

\* encodeURIComponent on an ASCII text
RECURSIVE encodeURIComponent(_)
encodeURIComponent(raw) ==
    IF raw = <<>> THEN <<>>
    ELSE LET sym == Head(raw)
             out == IF IsUnreserved(sym) THEN <<sym>> ELSE PercentByte(CodeOf(sym))
         IN out \o encodeURIComponent(Tail(raw))

\* decodeURIComponent: every '%' must start %XX with two hex digits, and the
\* escaped bytes must form UTF-8; an escaped byte above 0x7F never does alone.
RECURSIVE decodeURIComponentFrom(_, _, _)
decodeURIComponentFrom(text, i, out) ==
    IF i > Len(text) THEN Ok(out)
    ELSE IF text[i] = PCT
         THEN IF \/ i + 2 > Len(text)
                 \/ ~IsHex(text[i + 1])
                 \/ ~IsHex(text[i + 2])
                 \/ 16 * HexValue(text[i + 1]) + HexValue(text[i + 2]) > 127
              THEN Thrown(<<"URI", SP, "malformed">>)
              ELSE decodeURIComponentFrom(text, i + 3,
                       Append(out, CharOfCode(16 * HexValue(text[i + 1]) + HexValue(text[i + 2]))))
         ELSE decodeURIComponentFrom(text, i + 1, Append(out, text[i]))

decodeURIComponent(text) == decodeURIComponentFrom(text, 1, <<>>)

----------------------------------------------------------------------------
(* FlatRecord: the entries <<key, value>> of an object in insertion order *)

Has(record, key) == \E i \in 1..Len(record) : record[i][1] = key

\* record[key], for a key the record has
Get(record, key) == record[CHOOSE i \in 1..Len(record) : record[i][1] = key][2]

\* record[key] ?? dflt
GetOr(record, key, dflt) == IF Has(record, key) THEN Get(record, key) ELSE dflt

\* record[key] = value on an object literal, value a string: an existing key
\* keeps its place; the key __proto__ names the accessor of Object.prototype,
\* whose setter ignores a string, so no property is made
Put(record, key, value) ==
    IF key = <<"__proto__">> THEN record
    ELSE IF Has(record, key)
    THEN [i \in 1..Len(record) |->
            IF record[i][1] = key THEN <<key, value>> ELSE record[i]]
    ELSE Append(record, <<key, value>>)

\* for (const [k, v] of Object.entries(src)) out[k] = v
RECURSIVE PutAll(_, _)
PutAll(out, src) ==
    IF src = <<>> THEN out
    ELSE PutAll(Put(out, Head(src)[1], Head(src)[2]), Tail(src))

\* the record as a mapping, whatever the order of its entries
AsMap(record) == {<<record[i][1], record[i][2]>> : i \in 1..Len(record)}

\* str.split(sep), sep one character
RECURSIVE SplitFrom(_, _, _)
SplitFrom(str, sep, acc) ==
    IF str = <<>> THEN <<acc>>
    ELSE IF Head(str) = sep THEN <<acc>> \o SplitFrom(Tail(str), sep, <<>>)
    ELSE SplitFrom(Tail(str), sep, Append(acc, Head(str)))

Split(str, sep) == SplitFrom(str, sep, <<>>)

\* str.indexOf(ch), 0-based, -1 when absent
IndexOf(str, ch) ==
    IF \E i \in 1..Len(str) : str[i] = ch
    THEN (CHOOSE i \in 1..Len(str) : str[i] = ch /\ \A j \in 1..(i - 1) : str[j] # ch) - 1
    ELSE -1

\* pairs.join(US)
RECURSIVE Join(_, _)
Join(parts, sep) ==
    IF parts = <<>> THEN <<>>
    ELSE IF Len(parts) = 1 THEN Head(parts)
    ELSE Head(parts) \o <<sep>> \o Join(Tail(parts), sep)

\* FlatKV.encode without the URL encoding of the frame
FlatKV_encode_Raw(record) ==
    Join([i \in 1..Len(record) |->
             record[i][1] \o <<GS>> \o encodeValue(record[i][2])], US)

\* FlatKV.encode
FlatKV_encode(record) ==
    LET pairs == [i \in 1..Len(record) |->
                    record[i][1] \o <<GS>> \o encodeValue(record[i][2])]
        raw == Join(pairs, US)
    IN encodeURIComponent(raw)

\* the loop of FlatKV.decode over the pairs
RECURSIVE decodePairs(_, _)
decodePairs(pairs, record) ==
    IF pairs = <<>> THEN Ok(record)
    ELSE LET pair == Head(pairs)
             idx == IndexOf(pair, GS)
         IN IF Len(pair) = 0 THEN decodePairs(Tail(pairs), record)
            ELSE IF idx <= 0 THEN decodePairs(Tail(pairs), record)
            ELSE LET key == SubSeq(pair, 1, idx)
                     encVal == SubSeq(pair, idx + 2, Len(pair))
                     val == decodeValue(encVal)
                 IN IF ~val.ok THEN val
                    ELSE decodePairs(Tail(pairs), Put(record, key, val.value))

\* FlatKV.decode
FlatKV_decode(text) ==
    IF Len(text) = 0 THEN Ok(<<>>)
    ELSE LET raw == decodeURIComponent(text)
         IN IF ~raw.ok THEN raw
            ELSE decodePairs(Split(raw.value, US), <<>>)

----------------------------------------------------------------------------
(* ArrayValue: "[v0;v1;v2]" *)

\* an element of the array given to encodeArray: a string or a number
Str(s) == [string |-> s]
Num(n) == [number |-> n]

\* String(n), n a natural number
RECURSIVE Digits(_)
Digits(n) ==
    IF n < 10 THEN <<HexDigits[n + 1]>>
    ELSE Digits(n \div 10) \o <<HexDigits[(n % 10) + 1]>>

\* String(v), v a string or an integer
String(v) ==
    IF "string" \in DOMAIN v THEN v.string
    ELSE IF v.number < 0 THEN <<"-">> \o Digits(-v.number)
    ELSE Digits(v.number)

encodeArray(values) ==
    <<"[">> \o Join([i \in 1..Len(values) |-> String(values[i])], ";") \o <<"]">>

decodeArray(text) ==
    IF Len(text) = 0 \/ text[1] # "[" \/ text[Len(text)] # "]"
    THEN Thrown(<<"invalid", SP, "ArrayValue", ":", SP, "missing", SP, "brackets">>)
    ELSE LET inner == SubSeq(text, 2, Len(text) - 1)
         IN IF Len(inner) = 0 THEN Ok(<<>>) ELSE Ok(Split(inner, ";"))

----------------------------------------------------------------------------
(* Request and response envelopes *)

\* a one-word string
W(word) == <<word>>

K_type == W("type")
K_id == W("id")
K_method == W("method")
K_status == W("status")
K_message == W("message")
ResultPrefix == <<"result", ".">>
ArgumentPrefix == <<"argument", ".">>

MaxIdLength == 64

\* a word of 65 characters
LongWord == "aaaaaaaaaaaaaaaaaaaaaaaaaaaaaaaaaaaaaaaaaaaaaaaaaaaaaaaaaaaaaaaaa"

\* a word of 64 characters
Word64 == "bbbbbbbbbbbbbbbbbbbbbbbbbbbbbbbbbbbbbbbbbbbbbbbbbbbbbbbbbbbbbbbb"

\* the number of characters of the words that occur as an id: the ids of
\* Math.random().toString(36).slice(2, 10), the ids the peer makes up
WordChars ==
    [word \in {"k1", "k2", "k3", "k4", "mismatch123", "r1", "r2", "x9", Word64,
               LongWord} |->
        CASE word \in {"k1", "k2", "k3", "k4"} -> 8
          [] word = "mismatch123" -> 11
          [] word \in {"r1", "r2", "x9"} -> 2
          [] word = Word64 -> 64
          [] word = LongWord -> 65]

\* str.length: a character counts one, a word the number of its characters
RECURSIVE Length(_)
Length(str) ==
    IF str = <<>> THEN 0
    ELSE (IF Head(str) \in DOMAIN WordChars THEN WordChars[Head(str)] ELSE 1)
         + Length(Tail(str))

\* k.startsWith(prefix)
StartsWith(k, prefix) ==
    Len(k) >= Len(prefix) /\ SubSeq(k, 1, Len(prefix)) = prefix

\* k.slice(prefix.length)
SliceAfter(k, prefix) == SubSeq(k, Len(prefix) + 1, Len(k))

\* first loop of parseResponse / parseRequest: the top-level keys that are
\* neither reserved nor carry one of the skipped prefixes
RECURSIVE TopLevelFields(_, _, _, _)
TopLevelFields(entries, reserved, skipped, out) ==
    IF entries = <<>> THEN out
    ELSE LET k == Head(entries)[1]
             v == Head(entries)[2]
         IN IF k \in reserved \/ \E pre \in skipped : StartsWith(k, pre)
            THEN TopLevelFields(Tail(entries), reserved, skipped, out)
            ELSE TopLevelFields(Tail(entries), reserved, skipped, Put(out, k, v))

\* properties every object literal inherits from Object.prototype
PrototypeKeys ==
    {<<"constructor">>, <<"toString">>, <<"valueOf">>, <<"hasOwnProperty">>,
     <<"isPrototypeOf">>, <<"propertyIsEnumerable">>, <<"toLocaleString">>,
     <<"__proto__">>}

\* second loop: prefixed keys, kept under the bare key unless it is taken
\* (kk in out, which also holds for an inherited property)
RECURSIVE PrefixedFields(_, _, _)
PrefixedFields(entries, prefix, out) ==
    IF entries = <<>> THEN out
    ELSE LET k == Head(entries)[1]
             v == Head(entries)[2]
             kk == SliceAfter(k, prefix)
         IN IF StartsWith(k, prefix) /\ ~Has(out, kk) /\ kk \notin PrototypeKeys
            THEN PrefixedFields(Tail(entries), prefix, Put(out, kk, v))
            ELSE PrefixedFields(Tail(entries), prefix, out)

ReservedKeys == {K_type, K_id, K_status, K_message, K_method}

\* parseResponse taking every status but ok for an error
parseResponse_AnyStatus(record) ==
    LET id == GetOr(record, K_id, <<>>)
    IN IF ~Has(record, K_type) \/ Get(record, K_type) # W("response")
       THEN Thrown(<<"not", SP, "a", SP, "response">>)
       ELSE IF Length(id) = 0 \/ Length(id) > MaxIdLength
       THEN Thrown(<<"invalid", SP, "id">>)
       ELSE IF Has(record, K_status) /\ Get(record, K_status) = W("ok")
       THEN Ok([id |-> id, status |-> "ok",
                result |-> PrefixedFields(record, ResultPrefix,
                              TopLevelFields(record, ReservedKeys, {ResultPrefix}, <<>>))])
       ELSE Ok([id |-> id, status |-> "error",
                message |-> GetOr(record, K_message, W("error"))])

parseResponse(record) ==
    LET id == GetOr(record, K_id, <<>>)
    IN IF ~Has(record, K_type) \/ Get(record, K_type) # W("response")
       THEN Thrown(<<"not", SP, "a", SP, "response">>)
       ELSE IF Length(id) = 0 \/ Length(id) > MaxIdLength
       THEN Thrown(<<"invalid", SP, "id">>)
       ELSE IF Has(record, K_status) /\ Get(record, K_status) = W("ok")
       THEN Ok([id |-> id, status |-> "ok",
                result |-> PrefixedFields(record, ResultPrefix,
                              TopLevelFields(record, ReservedKeys, {ResultPrefix}, <<>>))])
       ELSE IF Has(record, K_status) /\ Get(record, K_status) = W("error")
       THEN Ok([id |-> id, status |-> "error",
                message |-> GetOr(record, K_message, W("error"))])
       ELSE Thrown(<<"invalid", SP, "response">>)

parseRequest(record) ==
    IF ~Has(record, K_type) \/ Get(record, K_type) # W("request")
    THEN Thrown(<<"not", SP, "a", SP, "request">>)
    ELSE IF ~Has(record, K_id) \/ Length(Get(record, K_id)) = 0
            \/ Length(Get(record, K_id)) > MaxIdLength
    THEN Thrown(<<"invalid", SP, "id">>)
    ELSE IF ~Has(record, K_method) \/ Len(Get(record, K_method)) = 0
    THEN Thrown(<<"missing", SP, "method">>)
    ELSE Ok([id |-> Get(record, K_id), method |-> Get(record, K_method),
             args |-> PrefixedFields(record, ArgumentPrefix,
                         TopLevelFields(record, ReservedKeys,
                                        {ResultPrefix, ArgumentPrefix}, <<>>))])

buildResponseOk(id, result) ==
    PutAll(<<<<K_type, W("response")>>, <<K_id, id>>, <<K_status, W("ok")>>>>, result)

buildResponseError(id, message) ==
    <<<<K_type, W("response")>>, <<K_id, id>>, <<K_status, W("error")>>,
      <<K_message, message>>>>

----------------------------------------------------------------------------
(* WebSocketRpcServer: inputs *)

MaxCloses == 2
MaxReplies == 2
MaxWaits == 2

Calls == 1..MaxCalls
Conns == 1..MaxConns
Waits == 1..MaxWaits

\* the ids Math.random().toString(36).slice(2, 10) may yield
IdWords == <<"k1", "k2", "k3", "k4">>
IdSet == {W(IdWords[i]) : i \in 1..MaxIds}
WrongId == W("mismatch123")

K_text == W("text")
Hello == <<<<K_text, W("hello")>>>>

\* the (method, args) of the calls made: ping carries a text, arm_grab nothing
CallInputs == {[method |-> W("ping"), args |-> Hello],
               [method |-> W("arm_grab"), args |-> <<>>]}

\* calls whose args hold a key of the envelope: type, id or method
OverridingInputs ==
    {[method |-> W("ping"), args |-> <<<<key, W("x9")>>>>] : key \in {K_type, K_id, K_method}}

\* options.connectTimeoutMs: 0 skips the wait, 50 stands for every positive delay
ConnectTimeouts == {0, 50}

NoFreeHand == <<"no", SP, "free", SP, "hand">>

\* a response whose status is neither ok nor error
StatusDone ==
    <<<<K_type, W("response")>>, <<K_id, W(IdWords[1])>>, <<K_status, W("done")>>>>

\* response frames a peer may send: its answers, well-formed or not
ResponseRecords ==
    {buildResponseOk(id, Hello) : id \in IdSet}
    \cup {buildResponseOk(WrongId, <<>>)}
    \cup {buildResponseError(id, NoFreeHand) : id \in IdSet}
    \cup {StatusDone}

\* request frames a peer may send
RequestRecords ==
    {<<<<K_type, W("request")>>, <<K_id, W("r1")>>, <<K_method, W("echo")>>>>}

\* a second request of the peer, under another id
OtherRequest ==
    <<<<K_type, W("request")>>, <<K_id, W("r2")>>, <<K_method, W("echo")>>>>

\* an id of 65 characters
LongId == W(LongWord)

\* frames of type response that parseResponse rejects: no id, an id too long
\* (the frame with status "done" is among ResponseRecords)
InvalidResponseRecords ==
    {<<<<K_type, W("response")>>, <<K_status, W("ok")>>>>,
     <<<<K_type, W("response")>>, <<K_id, LongId>>, <<K_status, W("ok")>>>>}

\* frames that are no response and that parseRequest rejects: no method, no id,
\* another type, no type at all (the empty frame)
InvalidRequestRecords ==
    {<<<<K_type, W("request")>>, <<K_id, W("r1")>>>>,
     <<<<K_type, W("request")>>, <<K_method, W("echo")>>>>,
     <<<<K_type, W("event")>>, <<K_id, W("r1")>>>>,
     <<>>}

ResponseTexts == {FlatKV_encode(r) : r \in ResponseRecords}
RequestTexts == {FlatKV_encode(r) : r \in RequestRecords}
InvalidResponseTexts == {FlatKV_encode(r) : r \in InvalidResponseRecords}
InvalidRequestTexts == {FlatKV_encode(r) : r \in InvalidRequestRecords}

\* texts FlatKV.decode throws on: a lone % (decodeURIComponent throws), and a
\* value ending in % (decodeValue throws)
Undecodable == <<PCT>>
BadValue == encodeURIComponent(<<"id", GS, PCT>>)
UndecodableTexts == {Undecodable, BadValue}

InboundTexts ==
    ResponseTexts \cup RequestTexts \cup InvalidResponseTexts \cup InvalidRequestTexts
    \cup UndecodableTexts
    \cup {FlatKV_encode(OtherRequest), FlatKV_encode(buildResponseOk(W("x9"), Hello))}

\* FlatKV.decode of each inbound text
Decoded == [t \in InboundTexts |-> FlatKV_decode(t)]

\* the text of each request frame requestWithRaw may build (lines 233-235)
RequestText ==
    [in \in CallInputs \cup OverridingInputs, id \in IdSet |->
        FlatKV_encode(PutAll(<<<<K_type, W("request")>>, <<K_id, id>>,
                                 <<K_method, in.method>>>>, in.args))]

----------------------------------------------------------------------------
(* WebSocketRpcServer: state *)

VARIABLES
    clients,            \* this.clients, in insertion order
    connectionWaiters,  \* this.connectionWaiters
    pending,            \* this.pending: id -> the call whose resolve/reject/timer it holds
    handlers,           \* this.handlers: the registered methods
    listening,          \* this.wss accepts connections
    sockets,            \* each WebSocket: "new", "open", "terminated" or "closed"
    outbox,             \* the frames sent on each WebSocket, in order
    call,               \* each requestWithRaw invocation
    running,            \* handler invocations awaited by a message callback
    closes,             \* how often close() ran
    waits,              \* each waitForConnection invocation
    lastMessage,        \* the frame the last step received, when it was a 'message' callback
    input,              \* the argument given to a function of the codec, under its kind
    applied             \* the functions of the codec applied to it: name, argument, outcome

vars == <<clients, connectionWaiters, pending, handlers, listening, sockets,
          outbox, call, running, closes, waits, lastMessage, input, applied>>

NoMessage == [ws |-> 0, text |-> <<>>]

Unsettled == [kind |-> "unsettled"]
Resolved(record, flat, raw) == [kind |-> "resolved", record |-> record, flat |-> flat, raw |-> raw]
RpcError(message, raw, id) == [kind |-> "RpcError", message |-> message, raw |-> raw, id |-> id]
Error(message) == [kind |-> "Error", message |-> message]

\* Map operations on this.pending
EmptyMap == [id \in {} |-> 0]
MapSet(map, key, value) == [k \in DOMAIN map \cup {key} |-> IF k = key THEN value ELSE map[k]]
MapDelete(map, key) == [k \in DOMAIN map \ {key} |-> map[k]]

NoCall ==
    [pc |-> "idle", id |-> <<>>, in |-> [method |-> <<>>, args |-> <<>>],
     connectTimer |-> "none", timer |-> "none", ws |-> 0, outcome |-> Unsettled,
     turn |-> 0]

\* a waitForConnection not yet invoked
NoWait == [pc |-> "idle", timer |-> "none", outcome |-> Unsettled]

\* no function of the codec is applied on its own
NoInput == [none |-> TRUE]

\* the state after new WebSocketRpcServer(...)
Constructed ==
    /\ clients = <<>>
    /\ connectionWaiters = <<>>
    /\ pending = EmptyMap
    /\ handlers = {}
    /\ listening = TRUE
    /\ sockets = [w \in Conns |-> "new"]
    /\ outbox = [w \in Conns |-> <<>>]
    /\ call = [c \in Calls |-> NoCall]
    /\ running = <<>>
    /\ closes = 0
    /\ waits = [w \in Waits |-> NoWait]
    /\ lastMessage = NoMessage

Init ==
    /\ Constructed
    /\ input = NoInput
    /\ applied = <<>>

----------------------------------------------------------------------------
(* WebSocketRpcServer: helpers *)

\* this.clients.values().next().value, 0 for undefined
FirstClient(cl) == IF cl = <<>> THEN 0 ELSE cl[1]

\* this.clients.delete(ws)
SetDelete(cl, ws) == SelectSeq(cl, LAMBDA x : x # ws)

\* ws.send(text): a socket that is not open transmits nothing
Send(ob, ws, text) ==
    IF sockets[ws] = "open" THEN [ob EXCEPT ![ws] = Append(@, text)] ELSE ob

\* resolve/reject of a promise: only the first settles it
Settle(cr, result) ==
    IF cr.outcome = Unsettled THEN [cr EXCEPT !.outcome = result, !.pc = "done"] ELSE cr

\* Math.random() may yield any id, one in use included.  Ids are interchangeable:
\* the n-th new id that comes up is named IdWords[n].
FreshOrUsed ==
    LET used == {i \in 1..MaxIds : \E c \in Calls : call[c].id = W(IdWords[i])}
    IN {W(IdWords[i]) : i \in {j \in 1..MaxIds : j <= Cardinality(used) + 1}}

\* No promise reaction is queued: the event loop may run the next callback.
MicrotasksIdle == \A c \in Calls : call[c].pc # "resumed"

\* The continuation of call c is the first of the queued promise reactions: they
\* run in the order in which the waiters resolved their promises.
FirstReaction(c) ==
    \A d \in Calls : call[d].pc = "resumed" => call[c].turn <= call[d].turn

RepliesSent ==
    LET RECURSIVE Total(_)
        Total(S) == IF S = {} THEN 0
                    ELSE LET w == CHOOSE x \in S : TRUE
                         IN Len(outbox[w]) + Total(S \ {w})
    IN Total(Conns) - Cardinality({c \in Calls : call[c].ws # 0})

\* requestWithRaw from line 232 on, cr the invocation so far: allocate the id,
\* register the entry with its timer, send the frame over ws
SendRequest(c, cr, ws, id) ==
    /\ pending' = MapSet(pending, id, c)
    /\ call' = [call EXCEPT ![c] = [cr EXCEPT !.pc = "sent", !.id = id, !.ws = ws,
                                               !.timer = "armed"]]
    /\ outbox' = Send(outbox, ws, RequestText[cr.in, id])

----------------------------------------------------------------------------
(* WebSocketRpcServer: operations *)

\* register(method, handler)
Register(method) ==
    /\ method \notin handlers
    /\ handlers' = handlers \cup {method}
    /\ lastMessage' = NoMessage
    /\ UNCHANGED waits
    /\ UNCHANGED <<clients, connectionWaiters, pending, listening, sockets, outbox,
                   call, running, closes>>
    /\ UNCHANGED <<input, applied>>

\* requestWithRaw(method, args, options) up to its first await
Request(c, in, connectTimeout, id) ==
    /\ call[c].pc = "idle"
    /\ \A d \in Calls : d < c => call[d].pc # "idle"
    /\ id \in FreshOrUsed
    /\ lastMessage' = NoMessage
    /\ UNCHANGED waits
    /\ LET ws == FirstClient(clients)
           cr == [call[c] EXCEPT !.in = in]
       IN IF ws = 0
          THEN /\ IF connectTimeout > 0
                  THEN /\ call' = [call EXCEPT ![c] = [cr EXCEPT !.pc = "awaitConn",
                                                              !.connectTimer = "armed"]]
                       /\ connectionWaiters' = Append(connectionWaiters, c)
                  ELSE /\ call' = [call EXCEPT ![c] =
                                     Settle(cr, Error("no Resonite client connected"))]
                       /\ UNCHANGED connectionWaiters
               /\ UNCHANGED <<pending, outbox>>
          ELSE /\ SendRequest(c, cr, ws, id)
               /\ UNCHANGED connectionWaiters
    /\ UNCHANGED <<clients, handlers, listening, sockets, running, closes>>
    /\ UNCHANGED <<input, applied>>

\* requestWithRaw after its connect wait resolved (lines 228-247)
Resume(c, id) ==
    /\ call[c].pc = "resumed"
    /\ FirstReaction(c)
    /\ id \in FreshOrUsed
    /\ lastMessage' = NoMessage
    /\ UNCHANGED waits
    /\ LET ws == FirstClient(clients)
           cr == [call[c] EXCEPT !.turn = 0]
       IN IF ws = 0
          THEN /\ call' = [call EXCEPT ![c] =
                             Settle(cr, Error("no Resonite client connected"))]
               /\ UNCHANGED <<pending, outbox>>
          ELSE SendRequest(c, cr, ws, id)
    /\ UNCHANGED <<clients, connectionWaiters, handlers, listening, sockets, running, closes>>
    /\ UNCHANGED <<input, applied>>

\* ConnectTimeout rejecting with the message of the request timer
ConnectTimeout_WrongError(c) ==
    /\ MicrotasksIdle
    /\ call[c].connectTimer = "armed"
    /\ call' = [call EXCEPT ![c] =
                  [Settle(@, Error("request timeout")) EXCEPT !.connectTimer = "fired"]]
    /\ lastMessage' = NoMessage
    /\ UNCHANGED waits
    /\ UNCHANGED <<clients, connectionWaiters, pending, handlers, listening, sockets,
                   outbox, running, closes>>
    /\ UNCHANGED <<input, applied>>

\* the connect timer of requestWithRaw fires (lines 219-222)
ConnectTimeout(c) ==
    /\ MicrotasksIdle
    /\ call[c].connectTimer = "armed"
    /\ call' = [call EXCEPT ![c] =
                  [Settle(@, Error("no Resonite client connected"))
                      EXCEPT !.connectTimer = "fired"]]
    /\ lastMessage' = NoMessage
    /\ UNCHANGED waits
    /\ UNCHANGED <<clients, connectionWaiters, pending, handlers, listening, sockets,
                   outbox, running, closes>>
    /\ UNCHANGED <<input, applied>>

\* RequestTimeout that also terminates the connection the request went over
RequestTimeout_Terminates(c) ==
    /\ MicrotasksIdle
    /\ call[c].timer = "armed"
    /\ pending' = MapDelete(pending, call[c].id)
    /\ call' = [call EXCEPT ![c] =
                  [Settle(@, Error("request timeout")) EXCEPT !.timer = "fired"]]
    /\ sockets' = [sockets EXCEPT ![call[c].ws] = "terminated"]
    /\ clients' = SelectSeq(clients, LAMBDA w : w # call[c].ws)
    /\ lastMessage' = NoMessage
    /\ UNCHANGED waits
    /\ UNCHANGED <<connectionWaiters, handlers, listening, outbox, running, closes>>
    /\ UNCHANGED <<input, applied>>

\* RequestTimeout with the entry left in the table
RequestTimeout_KeepsEntry(c) ==
    /\ MicrotasksIdle
    /\ call[c].timer = "armed"
    /\ call' = [call EXCEPT ![c] =
                  [Settle(@, Error("request timeout")) EXCEPT !.timer = "fired"]]
    /\ lastMessage' = NoMessage
    /\ UNCHANGED waits
    /\ UNCHANGED <<clients, connectionWaiters, pending, handlers, listening, sockets,
                   outbox, running, closes>>
    /\ UNCHANGED <<input, applied>>

\* the request timer fires (lines 239-242)
RequestTimeout(c) ==
    /\ MicrotasksIdle
    /\ call[c].timer = "armed"
    /\ pending' = MapDelete(pending, call[c].id)
    /\ call' = [call EXCEPT ![c] =
                  [Settle(@, Error("request timeout")) EXCEPT !.timer = "fired"]]
    /\ lastMessage' = NoMessage
    /\ UNCHANGED waits
    /\ UNCHANGED <<clients, connectionWaiters, handlers, listening, sockets, outbox,
                   running, closes>>
    /\ UNCHANGED <<input, applied>>

\* Release that clears the timer and never resolves
Release_NoResolve(cr, n) ==
    IF cr.pc = "awaitConn" THEN [cr EXCEPT !.connectTimer = "cleared"] ELSE cr

\* Release that lets the call continue even after its wait has failed
Release_Stale(cr, n) ==
    [cr EXCEPT !.pc = "resumed", !.connectTimer = "cleared", !.turn = n]

\* the n-th waiter of the queue runs, a waiter of requestWithRaw (lines 223-226):
\* clearTimeout(timer); resolve(), which queues the continuation of the await
Release(cr, n) ==
    IF cr.pc = "awaitConn"
    THEN [cr EXCEPT !.pc = "resumed", !.connectTimer = "cleared", !.turn = n]
    ELSE cr

\* the entry of this.connectionWaiters that waitForConnection invocation w pushes;
\* the entry of a requestWithRaw invocation is its index in Calls
WaiterOf(w) == 0 - w

\* ReleaseWait that clears the timer and never resolves
ReleaseWait_NoResolve(wr) ==
    IF wr.timer = "armed" THEN [wr EXCEPT !.timer = "cleared"] ELSE wr

\* a waiter of waitForConnection runs (lines 91-94): clearTimeout(timer); resolve()
ReleaseWait(wr) ==
    IF wr.outcome = Unsettled
    THEN [wr EXCEPT !.pc = "done", !.timer = "cleared", !.outcome = [kind |-> "resolved"]]
    ELSE wr

\* waitForConnection(timeoutMs), lines 86-96, up to its await
WaitForConnection(w) ==
    /\ waits[w].pc = "idle"
    /\ \A v \in Waits : v < w => waits[v].pc # "idle"
    /\ IF FirstClient(clients) # 0
       THEN /\ waits' = [waits EXCEPT ![w] =
                           [@ EXCEPT !.pc = "done", !.outcome = [kind |-> "resolved"]]]
            /\ UNCHANGED connectionWaiters
       ELSE /\ waits' = [waits EXCEPT ![w] = [@ EXCEPT !.pc = "awaiting", !.timer = "armed"]]
            /\ connectionWaiters' = Append(connectionWaiters, WaiterOf(w))
    /\ lastMessage' = NoMessage
    /\ UNCHANGED <<clients, pending, handlers, listening, sockets, outbox, call,
                   running, closes>>
    /\ UNCHANGED <<input, applied>>

\* the timer of waitForConnection fires (line 90)
WaitTimeout(w) ==
    /\ MicrotasksIdle
    /\ waits[w].timer = "armed"
    /\ waits' = [waits EXCEPT ![w] =
                    [@ EXCEPT !.pc = "done", !.timer = "fired",
                              !.outcome = Error("no Resonite client connected")]]
    /\ lastMessage' = NoMessage
    /\ UNCHANGED <<clients, connectionWaiters, pending, handlers, listening, sockets,
                   outbox, call, running, closes>>
    /\ UNCHANGED <<input, applied>>

\* OnConnection that runs the waiters and leaves them in the queue
OnConnection_KeepsWaiters(ws) ==
    /\ MicrotasksIdle
    /\ listening
    /\ sockets[ws] = "new"
    /\ \A v \in Conns : v < ws => sockets[v] # "new"
    /\ clients' = Append(clients, ws)
    /\ call' = [c \in Calls |->
                  IF \E i \in 1..Len(connectionWaiters) : connectionWaiters[i] = c
                  THEN Release(call[c], CHOOSE i \in 1..Len(connectionWaiters) :
                                           connectionWaiters[i] = c)
                  ELSE call[c]]
    /\ waits' = [w \in Waits |->
                   IF \E i \in 1..Len(connectionWaiters) :
                         connectionWaiters[i] = WaiterOf(w)
                   THEN ReleaseWait(waits[w]) ELSE waits[w]]
    /\ connectionWaiters' = connectionWaiters
    /\ sockets' = [sockets EXCEPT ![ws] = "open"]
    /\ lastMessage' = NoMessage
    /\ UNCHANGED <<pending, handlers, listening, outbox, running, closes>>
    /\ UNCHANGED <<input, applied>>

\* OnConnection running the waiters last in, first out
OnConnection_Lifo(ws) ==
    /\ MicrotasksIdle
    /\ listening
    /\ sockets[ws] = "new"
    /\ \A v \in Conns : v < ws => sockets[v] # "new"
    /\ clients' = Append(clients, ws)
    /\ call' = [c \in Calls |->
                  IF \E i \in 1..Len(connectionWaiters) : connectionWaiters[i] = c
                  THEN Release(call[c],
                               Len(connectionWaiters) + 1
                               - (CHOOSE i \in 1..Len(connectionWaiters) :
                                     connectionWaiters[i] = c))
                  ELSE call[c]]
    /\ waits' = [w \in Waits |->
                   IF \E i \in 1..Len(connectionWaiters) :
                         connectionWaiters[i] = WaiterOf(w)
                   THEN ReleaseWait(waits[w]) ELSE waits[w]]
    /\ connectionWaiters' = <<>>
    /\ sockets' = [sockets EXCEPT ![ws] = "open"]
    /\ lastMessage' = NoMessage
    /\ UNCHANGED <<pending, handlers, listening, outbox, running, closes>>
    /\ UNCHANGED <<input, applied>>

\* onConnection(ws), lines 99-110
OnConnection(ws) ==
    /\ MicrotasksIdle
    /\ listening
    /\ sockets[ws] = "new"
    /\ \A v \in Conns : v < ws => sockets[v] # "new"
    /\ clients' = Append(clients, ws)
    /\ call' = [c \in Calls |->
                  IF \E i \in 1..Len(connectionWaiters) : connectionWaiters[i] = c
                  THEN Release(call[c], CHOOSE i \in 1..Len(connectionWaiters) :
                                           connectionWaiters[i] = c)
                  ELSE call[c]]
    /\ waits' = [w \in Waits |->
                   IF \E i \in 1..Len(connectionWaiters) :
                         connectionWaiters[i] = WaiterOf(w)
                   THEN ReleaseWait(waits[w]) ELSE waits[w]]
    /\ connectionWaiters' = <<>>
    /\ sockets' = [sockets EXCEPT ![ws] = "open"]
    /\ lastMessage' = NoMessage
    /\ UNCHANGED <<pending, handlers, listening, outbox, running, closes>>
    /\ UNCHANGED <<input, applied>>

\* OnClose failing the calls sent over the socket
OnClose_FailsInFlight(ws) ==
    /\ MicrotasksIdle
    /\ sockets[ws] \in {"open", "terminated"}
    /\ clients' = SetDelete(clients, ws)
    /\ sockets' = [sockets EXCEPT ![ws] = IF @ = "open" THEN "closed" ELSE @]
    /\ call' = [c \in Calls |->
                  IF call[c].ws = ws /\ call[c].pc = "sent"
                  THEN [Settle(call[c], Error("connection closed")) EXCEPT !.timer = "cleared"]
                  ELSE call[c]]
    /\ pending' = [id \in {k \in DOMAIN pending : call[pending[k]].ws # ws} |-> pending[id]]
    /\ lastMessage' = NoMessage
    /\ UNCHANGED waits
    /\ UNCHANGED <<connectionWaiters, handlers, listening, outbox, running, closes>>
    /\ UNCHANGED <<input, applied>>

\* the 'close' event of a socket (lines 111-114)
OnClose(ws) ==
    /\ MicrotasksIdle
    /\ sockets[ws] \in {"open", "terminated"}
    /\ clients' = SetDelete(clients, ws)
    /\ sockets' = [sockets EXCEPT ![ws] = IF @ = "open" THEN "closed" ELSE @]
    /\ lastMessage' = NoMessage
    /\ UNCHANGED waits
    /\ UNCHANGED <<connectionWaiters, pending, handlers, listening, outbox, call,
                   running, closes>>
    /\ UNCHANGED <<input, applied>>

MethodNotImplemented == <<"method", SP, "not", SP, "implemented">>

\* OnResponse that takes a response only from the connection of its request
OnResponse_SameConnection(ws, text, record) ==
    LET res == parseResponse(record)
    IN /\ IF /\ res.ok /\ res.value.id \in DOMAIN pending
             /\ call[pending[res.value.id]].ws = ws
          THEN LET owner == pending[res.value.id]
                   result == IF res.value.status = "ok"
                             THEN Resolved(res.value.result, record, text)
                             ELSE RpcError(res.value.message, text, res.value.id)
               IN /\ pending' = MapDelete(pending, res.value.id)
                  /\ call' = [call EXCEPT ![owner] =
                                [Settle(@, result) EXCEPT !.timer = "cleared"]]
          ELSE UNCHANGED <<pending, call>>
       /\ UNCHANGED <<outbox, running>>

\* OnResponse pairing the response with whichever entry is pending
OnResponse_AnyEntry(ws, text, record) ==
    LET res == parseResponse(record)
    IN /\ IF res.ok /\ DOMAIN pending # {}
          THEN LET id == CHOOSE k \in DOMAIN pending : TRUE
                   owner == pending[id]
                   result == IF res.value.status = "ok"
                             THEN Resolved(res.value.result, record, text)
                             ELSE RpcError(res.value.message, text, res.value.id)
               IN /\ pending' = MapDelete(pending, id)
                  /\ call' = [call EXCEPT ![owner] =
                                [Settle(@, result) EXCEPT !.timer = "cleared"]]
          ELSE UNCHANGED <<pending, call>>
       /\ UNCHANGED <<outbox, running>>

\* OnResponse resolving with the whole frame instead of its result fields
OnResponse_WholeFrame(ws, text, record) ==
    LET res == parseResponse(record)
    IN /\ IF res.ok /\ res.value.id \in DOMAIN pending
          THEN LET owner == pending[res.value.id]
                   result == IF res.value.status = "ok"
                             THEN Resolved(record, record, text)
                             ELSE RpcError(res.value.message, text, res.value.id)
               IN /\ pending' = MapDelete(pending, res.value.id)
                  /\ call' = [call EXCEPT ![owner] =
                                [Settle(@, result) EXCEPT !.timer = "cleared"]]
          ELSE UNCHANGED <<pending, call>>
       /\ UNCHANGED <<outbox, running>>

\* OnResponse answering a response it cannot place with an error frame
OnResponse_RepliesUnknown(ws, text, record) ==
    LET res == parseResponse(record)
    IN IF res.ok /\ res.value.id \in DOMAIN pending
       THEN LET owner == pending[res.value.id]
                result == IF res.value.status = "ok"
                          THEN Resolved(res.value.result, record, text)
                          ELSE RpcError(res.value.message, text, res.value.id)
            IN /\ pending' = MapDelete(pending, res.value.id)
               /\ call' = [call EXCEPT ![owner] =
                             [Settle(@, result) EXCEPT !.timer = "cleared"]]
               /\ UNCHANGED <<outbox, running>>
       ELSE /\ outbox' = Send(outbox, ws, FlatKV_encode(
                   buildResponseError(GetOr(record, K_id, <<>>), <<"unknown", SP, "id">>)))
            /\ UNCHANGED <<pending, call, running>>

\* OnResponse rejecting with a plain Error: no raw frame, no id
OnResponse_PlainError(ws, text, record) ==
    LET res == parseResponse(record)
    IN /\ IF res.ok /\ res.value.id \in DOMAIN pending
          THEN LET owner == pending[res.value.id]
                   result == IF res.value.status = "ok"
                             THEN Resolved(res.value.result, record, text)
                             ELSE Error(res.value.message)
               IN /\ pending' = MapDelete(pending, res.value.id)
                  /\ call' = [call EXCEPT ![owner] =
                                [Settle(@, result) EXCEPT !.timer = "cleared"]]
          ELSE UNCHANGED <<pending, call>>
       /\ UNCHANGED <<outbox, running>>

\* OnResponse that leaves the timer of the call armed
OnResponse_KeepsTimer(ws, text, record) ==
    LET res == parseResponse(record)
    IN /\ IF res.ok /\ res.value.id \in DOMAIN pending
          THEN LET owner == pending[res.value.id]
                   result == IF res.value.status = "ok"
                             THEN Resolved(res.value.result, record, text)
                             ELSE RpcError(res.value.message, text, res.value.id)
               IN /\ pending' = MapDelete(pending, res.value.id)
                  /\ call' = [call EXCEPT ![owner] = Settle(@, result)]
          ELSE UNCHANGED <<pending, call>>
       /\ UNCHANGED <<outbox, running>>

\* OnResponse failing the call whose id an unparseable response names
OnResponse_FailsOnInvalid(ws, text, record) ==
    LET res == parseResponse(record)
        id == GetOr(record, K_id, <<>>)
    IN /\ IF res.ok /\ res.value.id \in DOMAIN pending
          THEN LET owner == pending[res.value.id]
                   result == IF res.value.status = "ok"
                             THEN Resolved(res.value.result, record, text)
                             ELSE RpcError(res.value.message, text, res.value.id)
               IN /\ pending' = MapDelete(pending, res.value.id)
                  /\ call' = [call EXCEPT ![owner] =
                                [Settle(@, result) EXCEPT !.timer = "cleared"]]
          ELSE IF ~res.ok /\ id \in DOMAIN pending
          THEN /\ pending' = MapDelete(pending, id)
               /\ call' = [call EXCEPT ![pending[id]] =
                             [Settle(@, Error("invalid response")) EXCEPT !.timer = "cleared"]]
          ELSE UNCHANGED <<pending, call>>
       /\ UNCHANGED <<outbox, running>>

\* the response branch of the 'message' callback (lines 140-161)
OnResponse(ws, text, record) ==
    LET res == parseResponse(record)
    IN /\ IF res.ok /\ res.value.id \in DOMAIN pending
          THEN LET owner == pending[res.value.id]
                   result == IF res.value.status = "ok"
                             THEN Resolved(res.value.result, record, text)
                             ELSE RpcError(res.value.message, text, res.value.id)
               IN /\ pending' = MapDelete(pending, res.value.id)
                  /\ call' = [call EXCEPT ![owner] =
                                [Settle(@, result) EXCEPT !.timer = "cleared"]]
          ELSE UNCHANGED <<pending, call>>
       /\ UNCHANGED <<outbox, running>>

\* OnRequest that leaves a request for a missing method unanswered
OnRequest_SilentOnMissing(ws, record) ==
    LET req == parseRequest(record)
    IN /\ RepliesSent + Len(running) < MaxReplies
       /\ IF ~req.ok
          THEN /\ outbox' = Send(outbox, ws, FlatKV_encode(
                      <<<<K_type, W("response")>>, <<K_id, GetOr(record, K_id, <<>>)>>,
                        <<K_status, W("error")>>, <<K_message, req.message>>>>))
               /\ UNCHANGED running
          ELSE IF req.value.method \notin handlers
          THEN UNCHANGED <<outbox, running>>
          ELSE /\ running' = Append(running, [ws |-> ws, req |-> req.value])
               /\ UNCHANGED outbox
       /\ UNCHANGED <<pending, call>>

\* OnRequest that answers only frames of type request
OnRequest_IgnoresOtherTypes(ws, record) ==
    LET req == parseRequest(record)
    IN /\ RepliesSent + Len(running) < MaxReplies
       /\ IF ~req.ok
          THEN /\ outbox' = IF Has(record, K_type) /\ Get(record, K_type) = W("request")
                            THEN Send(outbox, ws, FlatKV_encode(
                                   <<<<K_type, W("response")>>,
                                     <<K_id, GetOr(record, K_id, <<>>)>>,
                                     <<K_status, W("error")>>, <<K_message, req.message>>>>))
                            ELSE outbox
               /\ UNCHANGED running
          ELSE IF req.value.method \notin handlers
          THEN /\ outbox' = Send(outbox, ws, FlatKV_encode(
                      buildResponseError(req.value.id, MethodNotImplemented)))
               /\ UNCHANGED running
          ELSE /\ running' = Append(running, [ws |-> ws, req |-> req.value])
               /\ UNCHANGED outbox
       /\ UNCHANGED <<pending, call>>

\* the request branch of the 'message' callback (lines 162-183), up to the
\* await of the handler
OnRequest(ws, record) ==
    LET req == parseRequest(record)
    IN /\ RepliesSent + Len(running) < MaxReplies
       /\ IF ~req.ok
          THEN /\ outbox' = Send(outbox, ws, FlatKV_encode(
                      <<<<K_type, W("response")>>, <<K_id, GetOr(record, K_id, <<>>)>>,
                        <<K_status, W("error")>>, <<K_message, req.message>>>>))
               /\ UNCHANGED running
          ELSE IF req.value.method \notin handlers
          THEN /\ outbox' = Send(outbox, ws, FlatKV_encode(
                      buildResponseError(req.value.id, MethodNotImplemented)))
               /\ UNCHANGED running
          ELSE /\ running' = Append(running, [ws |-> ws, req |-> req.value])
               /\ UNCHANGED outbox
       /\ UNCHANGED <<pending, call>>

\* OnMessage that drops a text it cannot decode
OnMessage_DropsUndecodable(ws, text) ==
    /\ MicrotasksIdle
    /\ sockets[ws] = "open"
    /\ lastMessage' = [ws |-> ws, text |-> text]
    /\ LET decoded == Decoded[text]
       IN IF ~decoded.ok
          THEN UNCHANGED <<pending, call, running, outbox>>
          ELSE IF Has(decoded.value, K_type) /\ Get(decoded.value, K_type) = W("response")
          THEN OnResponse(ws, text, decoded.value)
          ELSE OnRequest(ws, decoded.value)
    /\ UNCHANGED <<clients, connectionWaiters, handlers, listening, sockets, closes,
                   waits>>
    /\ UNCHANGED <<input, applied>>

\* the 'message' callback of a socket (lines 115-195), text the frame as a string
OnMessage(ws, text) ==
    /\ MicrotasksIdle
    /\ sockets[ws] = "open"
    /\ lastMessage' = [ws |-> ws, text |-> text]
    /\ LET decoded == Decoded[text]
       IN IF ~decoded.ok
          THEN /\ RepliesSent + Len(running) < MaxReplies
               /\ outbox' = Send(outbox, ws, FlatKV_encode(
                      <<<<K_type, W("response")>>, <<K_id, <<>>>>,
                        <<K_status, W("error")>>, <<K_message, decoded.message>>>>))
               /\ UNCHANGED <<pending, call, running>>
          ELSE IF Has(decoded.value, K_type) /\ Get(decoded.value, K_type) = W("response")
          THEN OnResponse(ws, text, decoded.value)
          ELSE OnRequest(ws, decoded.value)
    /\ UNCHANGED <<clients, connectionWaiters, handlers, listening, sockets, closes,
                   waits>>
    /\ UNCHANGED <<input, applied>>

InternalError == <<"internal", SP, "error">>
\* what a handler may return: nothing, a text, a field named like the envelope's id
HandlerResults == {<<>>, Hello, <<<<K_id, W("x9")>>>>}
HandlerErrors == {W("boom"), InternalError}

\* HandlerReturn that answers and keeps awaiting the handler
HandlerReturn_KeepsRunning(i, result) ==
    /\ i \in 1..Len(running)
    /\ outbox' = Send(outbox, running[i].ws,
                      FlatKV_encode(buildResponseOk(running[i].req.id, result)))
    /\ lastMessage' = NoMessage
    /\ UNCHANGED <<clients, connectionWaiters, pending, handlers, listening, sockets,
                   call, closes, waits, running>>
    /\ UNCHANGED <<input, applied>>

\* the handler returned: lines 185-188
HandlerReturn(i, result) ==
    /\ i \in 1..Len(running)
    /\ outbox' = Send(outbox, running[i].ws,
                      FlatKV_encode(buildResponseOk(running[i].req.id, result)))
    /\ running' = SubSeq(running, 1, i - 1) \o SubSeq(running, i + 1, Len(running))
    /\ lastMessage' = NoMessage
    /\ UNCHANGED waits
    /\ UNCHANGED <<clients, connectionWaiters, pending, handlers, listening, sockets,
                   call, closes>>
    /\ UNCHANGED <<input, applied>>

\* HandlerThrow that swallows the error: no response
HandlerThrow_Swallows(i, message) ==
    /\ i \in 1..Len(running)
    /\ running' = SubSeq(running, 1, i - 1) \o SubSeq(running, i + 1, Len(running))
    /\ lastMessage' = NoMessage
    /\ UNCHANGED <<clients, connectionWaiters, pending, handlers, listening, sockets,
                   call, closes, waits, outbox>>
    /\ UNCHANGED <<input, applied>>

\* the handler threw or rejected: lines 189-193
HandlerThrow(i, message) ==
    /\ i \in 1..Len(running)
    /\ outbox' = Send(outbox, running[i].ws,
                      FlatKV_encode(buildResponseError(running[i].req.id, message)))
    /\ running' = SubSeq(running, 1, i - 1) \o SubSeq(running, i + 1, Len(running))
    /\ lastMessage' = NoMessage
    /\ UNCHANGED waits
    /\ UNCHANGED <<clients, connectionWaiters, pending, handlers, listening, sockets,
                   call, closes>>
    /\ UNCHANGED <<input, applied>>

\* close() that only stops the server
Close_OnlyServer ==
    /\ closes < MaxCloses
    /\ listening' = FALSE
    /\ closes' = closes + 1
    /\ lastMessage' = NoMessage
    /\ UNCHANGED waits
    /\ UNCHANGED <<clients, connectionWaiters, pending, handlers, sockets, outbox,
                   call, running>>
    /\ UNCHANGED <<input, applied>>

\* close() without this.clients.clear()
Close_KeepsClients ==
    /\ closes < MaxCloses
    /\ sockets' = [w \in Conns |->
                     IF \E i \in 1..Len(clients) : clients[i] = w
                     THEN "terminated" ELSE sockets[w]]
    /\ call' = [c \in Calls |->
                  IF \E id \in DOMAIN pending : pending[id] = c
                  THEN [Settle(call[c], Error("server closed")) EXCEPT !.timer = "cleared"]
                  ELSE call[c]]
    /\ pending' = EmptyMap
    /\ listening' = FALSE
    /\ closes' = closes + 1
    /\ lastMessage' = NoMessage
    /\ UNCHANGED waits
    /\ UNCHANGED <<clients, connectionWaiters, handlers, outbox, running>>
    /\ UNCHANGED <<input, applied>>

\* close(), lines 58-84; a caller runs after the promise reactions queued before it
Close ==
    /\ MicrotasksIdle
    /\ closes < MaxCloses
    /\ sockets' = [w \in Conns |->
                     IF \E i \in 1..Len(clients) : clients[i] = w
                     THEN "terminated" ELSE sockets[w]]
    /\ clients' = <<>>
    /\ call' = [c \in Calls |->
                  IF \E id \in DOMAIN pending : pending[id] = c
                  THEN [Settle(call[c], Error("server closed")) EXCEPT !.timer = "cleared"]
                  ELSE call[c]]
    /\ pending' = EmptyMap
    /\ listening' = FALSE
    /\ closes' = closes + 1
    /\ lastMessage' = NoMessage
    /\ UNCHANGED waits
    /\ UNCHANGED <<connectionWaiters, handlers, outbox, running>>
    /\ UNCHANGED <<input, applied>>

\* Outbound calls against a peer that answers, with no handler registered.
Next ==
    \/ \E c \in Calls, in \in CallInputs, t \in ConnectTimeouts, id \in IdSet :
          Request(c, in, t, id)
    \/ \E c \in Calls, id \in IdSet : Resume(c, id)
    \/ \E c \in Calls : ConnectTimeout(c)
    \/ \E c \in Calls : RequestTimeout(c)
    \/ \E ws \in Conns : OnConnection(ws)
    \/ \E ws \in Conns : OnClose(ws)
    \/ \E ws \in Conns, text \in ResponseTexts : OnMessage(ws, text)
    \/ Close

Spec == Init /\ [][Next]_vars

\* a method with a registered handler (main.ts registers ping this way)
Methods == {W("echo")}

\* Inbound traffic: a peer that sends any frame to a server whose handlers return
\* or throw, beside one outbound call that does not wait for a connection.
InboundCalls == {1}
InboundCallInputs == {[method |-> W("ping"), args |-> Hello]}

\* the frames of the peer: requests, valid or not, undecodable texts, responses
\* parseResponse rejects, and the answer to the outbound call
InboundSpecTexts ==
    RequestTexts \cup InvalidRequestTexts \cup UndecodableTexts \cup InvalidResponseTexts
    \cup {FlatKV_encode(StatusDone), FlatKV_encode(buildResponseOk(W(IdWords[1]), Hello))}

NextInbound ==
    \/ \E method \in Methods : Register(method)
    \/ \E c \in InboundCalls, in \in InboundCallInputs, id \in IdSet : Request(c, in, 0, id)
    \/ \E c \in InboundCalls : RequestTimeout(c)
    \/ \E ws \in Conns : OnConnection(ws)
    \/ \E ws \in Conns : OnClose(ws)
    \/ \E ws \in Conns, text \in InboundSpecTexts : OnMessage(ws, text)
    \/ \E i \in 1..MaxReplies, result \in HandlerResults : HandlerReturn(i, result)
    \/ \E i \in 1..MaxReplies, message \in HandlerErrors : HandlerThrow(i, message)

InboundSpec == Init /\ [][NextInbound]_vars

\* Concurrent handlers: a peer that sends two requests under different ids and the
\* answer to the one outbound call, to a server whose handlers return or throw
\* at any later time.
ConcurrentTexts ==
    RequestTexts \cup {FlatKV_encode(OtherRequest), FlatKV_encode(buildResponseOk(W(IdWords[1]), Hello))}

NextConcurrent ==
    \/ \E method \in Methods : Register(method)
    \/ \E c \in InboundCalls, in \in InboundCallInputs, id \in IdSet : Request(c, in, 0, id)
    \/ \E ws \in Conns : OnConnection(ws)
    \/ \E ws \in Conns, text \in ConcurrentTexts : OnMessage(ws, text)
    \/ \E i \in 1..MaxReplies, result \in HandlerResults : HandlerReturn(i, result)
    \/ \E i \in 1..MaxReplies, message \in HandlerErrors : HandlerThrow(i, message)

ConcurrentSpec == Init /\ [][NextConcurrent]_vars

\* Connections: a peer that sends a request, a text that cannot be decoded, a
\* frame without method and the answer to the one outbound call, whose request
\* timer may fire; handlers that return or throw; connections that close, and
\* close().
ConnectionTexts ==
    RequestTexts \cup {Undecodable, FlatKV_encode(<<<<K_type, W("request")>>, <<K_id, W("r1")>>>>),
                       FlatKV_encode(buildResponseOk(W(IdWords[1]), Hello))}

NextConnection ==
    \/ \E method \in Methods : Register(method)
    \/ \E c \in InboundCalls, in \in InboundCallInputs, id \in IdSet : Request(c, in, 0, id)
    \/ \E c \in InboundCalls : RequestTimeout(c)
    \/ \E ws \in Conns : OnConnection(ws)
    \/ \E ws \in Conns : OnClose(ws)
    \/ \E ws \in Conns, text \in ConnectionTexts : OnMessage(ws, text)
    \/ \E i \in 1..MaxReplies, result \in HandlerResults : HandlerReturn(i, result)
    \/ \E i \in 1..MaxReplies, message \in HandlerErrors : HandlerThrow(i, message)
    \/ Close

ConnectionSpec == Init /\ [][NextConnection]_vars

\* Calls with any args: calls whose args may hold the keys of the envelope, sent
\* to a peer that answers under the id of the entry or under the id it read.
NextArgs ==
    \/ \E c \in Calls, in \in CallInputs \cup OverridingInputs, id \in IdSet :
          Request(c, in, 0, id)
    \/ \E c \in Calls : RequestTimeout(c)
    \/ \E ws \in Conns : OnConnection(ws)
    \/ \E ws \in Conns : OnClose(ws)
    \/ \E ws \in Conns, text \in ResponseTexts \cup {FlatKV_encode(buildResponseOk(W("x9"), Hello))} :
          OnMessage(ws, text)

ArgsSpec == Init /\ [][NextArgs]_vars

\* Waiting for a connection: waitForConnection invocations beside one call that
\* waits in the same queue, connections that open and close, and close().
NextWait ==
    \/ \E w \in Waits : WaitForConnection(w)
    \/ \E w \in Waits : WaitTimeout(w)
    \/ \E c \in InboundCalls, in \in InboundCallInputs, t \in ConnectTimeouts, id \in IdSet :
          Request(c, in, t, id)
    \/ \E c \in InboundCalls, id \in IdSet : Resume(c, id)
    \/ \E c \in InboundCalls : ConnectTimeout(c)
    \/ \E c \in InboundCalls : RequestTimeout(c)
    \/ \E ws \in Conns : OnConnection(ws)
    \/ \E ws \in Conns : OnClose(ws)
    \/ Close

WaitSpec == Init /\ [][NextWait]_vars

\* The event loop runs every armed timer and every queued promise reaction.
FairWaitSpec ==
    /\ WaitSpec
    /\ \A w \in Waits : WF_vars(WaitTimeout(w))
    /\ \A c \in InboundCalls : WF_vars(\E id \in IdSet : Resume(c, id))
    /\ \A c \in InboundCalls : WF_vars(ConnectTimeout(c))
    /\ \A c \in InboundCalls : WF_vars(RequestTimeout(c))


\* The event loop runs every queued promise reaction and every armed timer.
FairSpec ==
    /\ Spec
    /\ \A c \in Calls : WF_vars(\E id \in IdSet : Resume(c, id))
    /\ \A c \in Calls : WF_vars(ConnectTimeout(c))
    /\ \A c \in Calls : WF_vars(RequestTimeout(c))

----------------------------------------------------------------------------
(* The frames of a peer that follows the protocol, as the peer builds them *)

OkText == [id \in IdSet |-> FlatKV_encode(buildResponseOk(id, Hello))]
ErrorText == [id \in IdSet |-> FlatKV_encode(buildResponseError(id, NoFreeHand))]
WrongIdText == FlatKV_encode(buildResponseOk(WrongId, <<>>))

\* <<id, text>> of every well-formed response among the inbound texts
WellFormedResponses ==
    {<<id, OkText[id]>> : id \in IdSet} \cup {<<id, ErrorText[id]>> : id \in IdSet}
    \cup {<<WrongId, WrongIdText>>}

\* the step is a 'message' callback
IsMessageStep == lastMessage' # NoMessage

----------------------------------------------------------------------------
(* Claims *)

\* C1: two outstanding calls never cross-resolve.  Whenever a call is settled by
\* a response (resolved, or rejected with an RpcError), the frame just received is
\* a well-formed response carrying that call's own id, and the call gets that
\* frame's result (or message).
C1_NoCrossResolve ==
    [][\A c \in Calls :
          (call[c].outcome = Unsettled /\ call'[c].outcome.kind \in {"resolved", "RpcError"})
          => /\ IsMessageStep
             /\ <<call[c].id, lastMessage'.text>> \in WellFormedResponses
             /\ lastMessage'.text = OkText[call[c].id]
                   => call'[c].outcome.kind = "resolved" /\ call'[c].outcome.record = Hello
             /\ lastMessage'.text = ErrorText[call[c].id]
                   => call'[c].outcome.kind = "RpcError"
                      /\ call'[c].outcome.message = NoFreeHand]_vars

\* The later call is resolved by its own response while the earlier call, under a
\* different id, is still in the pending table: the responses came out of order.
C1_Witness ==
    /\ MaxCalls >= 2
    /\ call[1].pc = "sent" /\ call[1].id \in DOMAIN pending
    /\ call[2].outcome.kind = "resolved"
    /\ call[1].id # call[2].id
    /\ lastMessage.text = OkText[call[2].id]

\* C2: a status=ok response for a pending id resolves that call with exactly the
\* result fields of the response, removes its entry and cancels its timer.
C2_OkResolves ==
    [][\A id \in IdSet :
          (IsMessageStep /\ lastMessage'.text = OkText[id] /\ id \in DOMAIN pending)
          => LET c == pending[id]
             IN /\ call'[c].outcome.kind = "resolved"
                /\ call'[c].outcome.record = Hello
                /\ id \notin DOMAIN pending'
                /\ call'[c].timer = "cleared"]_vars

\* call("ping", {text: hello}) answered by an echo resolved to {text: hello}.
C2_Witness ==
    \E c \in Calls :
        /\ call[c].in.method = W("ping")
        /\ call[c].outcome.kind = "resolved"
        /\ call[c].outcome.record = call[c].in.args
        /\ call[c].outcome.record = <<<<W("text"), W("hello")>>>>
        /\ call[c].id \notin DOMAIN pending
        /\ call[c].timer = "cleared"

\* C3: an armed request timer stays armed until it fires, a response with the
\* call's id arrives or close() runs; when it fires the call fails with 'request
\* timeout' and the pending table no longer contains the call's id.
C3_Timeout ==
    [][\A c \in Calls :
          /\ (call[c].timer = "armed" /\ call'[c].timer = "fired")
             => /\ call[c].outcome = Unsettled
                /\ call'[c].outcome = Error("request timeout")
                /\ call[c].id \notin DOMAIN pending'
          /\ (call[c].timer = "armed" /\ call'[c].timer \notin {"armed", "fired"})
             => \/ closes' = closes + 1
                \/ IsMessageStep /\ <<call[c].id, lastMessage'.text>> \in WellFormedResponses
       ]_vars

C3_Witness ==
    \E c \in Calls :
        /\ call[c].outcome = Error("request timeout")
        /\ call[c].timer = "fired"
        /\ call[c].id \in IdSet
        /\ call[c].id \notin DOMAIN pending

\* C4: a well-formed response whose id is not in the pending table changes
\* nothing: no call is settled, every entry and timer stays, nothing is sent.
C4_UnknownIdIgnored ==
    [][\A r \in WellFormedResponses :
          (IsMessageStep /\ lastMessage'.text = r[2] /\ r[1] \notin DOMAIN pending)
          => UNCHANGED <<pending, call, outbox, clients, sockets, connectionWaiters>>]_vars

\* A response with an id that was never issued arrived while a call was pending
\* with its timer armed.
C4_Witness ==
    /\ lastMessage.text = WrongIdText
    /\ \E c \in Calls : /\ call[c].pc = "sent"
                        /\ call[c].timer = "armed"
                        /\ call[c].id \in DOMAIN pending

\* C5: a status=error response for a pending id rejects that call with an
\* RpcError of the peer's message, the raw frame text and the id, removes its
\* entry and cancels its timer.
C5_PeerError ==
    [][\A id \in IdSet :
          (IsMessageStep /\ lastMessage'.text = ErrorText[id] /\ id \in DOMAIN pending)
          => LET c == pending[id]
             IN /\ call'[c].outcome = RpcError(NoFreeHand, ErrorText[id], id)
                /\ id \notin DOMAIN pending'
                /\ call'[c].timer = "cleared"]_vars

C5_Witness ==
    \E c \in Calls :
        /\ call[c].outcome.kind = "RpcError"
        /\ call[c].outcome.message = <<"no", SP, "free", SP, "hand">>
        /\ call[c].outcome.id = call[c].id
        /\ \E i \in 1..Len(call[c].outcome.raw) : call[c].outcome.raw[i] = "status"
        /\ call[c].id \notin DOMAIN pending

\* the step is a run of close()
IsCloseStep == closes' = closes + 1

\* C6: close() terminates every active connection, cancels the timer of every
\* pending entry, fails each of those calls with 'server closed', and leaves the
\* pending table and the active-connection set empty.
C6_CloseDrains ==
    [][IsCloseStep
       => /\ \A id \in DOMAIN pending :
                /\ call'[pending[id]].outcome = Error("server closed")
                /\ call'[pending[id]].timer = "cleared"
          /\ \A i \in 1..Len(clients) : sockets'[clients[i]] = "terminated"
          /\ pending' = EmptyMap
          /\ clients' = <<>>]_vars

\* close() ran with every call of the model outstanding, each under its own id.
C6_Witness ==
    /\ closes = 1
    /\ \A c \in Calls : call[c].outcome = Error("server closed") /\ call[c].timer = "cleared"
    /\ \A c, d \in Calls : c # d => call[c].id # call[d].id
    /\ \E w \in Conns : sockets[w] = "terminated"
    /\ pending = EmptyMap /\ clients = <<>>

\* C7: close() after close() changes neither a call, nor the pending table, nor
\* the connections: both collections stay as empty as the first close() left them.
C7_CloseIdempotent ==
    [][(IsCloseStep /\ closes >= 1)
       => /\ pending' = EmptyMap /\ clients' = <<>>
          /\ UNCHANGED <<pending, clients, call, sockets, outbox, connectionWaiters,
                         listening>>]_vars

C7_Witness ==
    /\ closes = 2
    /\ \E c \in Calls : call[c].outcome = Error("server closed")
    /\ pending = EmptyMap /\ clients = <<>>

\* C8: a call issued with no connection active registers no entry and sends no
\* frame while it waits; it fails with the no-peer error when its connect timer
\* fires (at once when connectTimeoutMs is not positive), still without an id, an
\* entry, a frame sent or a request timer.
C8_NoPeer ==
    [][\A c \in Calls :
          /\ (call[c].pc = "idle" /\ call'[c].pc # "idle" /\ clients = <<>>)
             => /\ \/ call'[c].pc = "awaitConn" /\ call'[c].connectTimer = "armed"
                   \/ call'[c].outcome = Error("no Resonite client connected")
                /\ UNCHANGED <<pending, outbox>>
          /\ (call[c].connectTimer = "armed" /\ call'[c].connectTimer = "fired")
             => call[c].pc = "awaitConn" /\ call'[c].outcome = Error("no Resonite client connected")
          /\ (call[c].outcome = Unsettled /\ call'[c].outcome = Error("no Resonite client connected"))
             => /\ call'[c].id = <<>> /\ call'[c].ws = 0 /\ call'[c].timer = "none"
                /\ UNCHANGED <<pending, outbox>>]_vars

\* A call waited for a connection, none opened, and its connect timer fired.
C8_Witness ==
    \E c \in Calls :
        /\ call[c].outcome = Error("no Resonite client connected")
        /\ call[c].connectTimer = "fired"
        /\ call[c].timer = "none"
        /\ \A w \in Conns : sockets[w] = "new" /\ outbox[w] = <<>>
        /\ pending = EmptyMap

\* C9: the 'close' event of a connection removes it from the active set and
\* leaves every pending entry, timer and outcome as it was; the timer of a call
\* sent over it still fires later and fails the call with 'request timeout'.
C9_ConnectionClose ==
    [][/\ \A w \in Conns :
             (sockets[w] = "open" /\ sockets'[w] = "closed")
             => /\ \A i \in 1..Len(clients') : clients'[i] # w
                /\ UNCHANGED <<pending, call, connectionWaiters>>
       /\ \A c \in Calls :
             (/\ call[c].ws # 0 /\ sockets[call[c].ws] = "closed"
              /\ call[c].timer = "armed" /\ call'[c].timer = "fired")
             => call'[c].outcome = Error("request timeout")]_vars

\* The connection a call was sent over has closed; the call is still pending.
C9_Witness ==
    \E c \in Calls :
        /\ call[c].pc = "sent" /\ call[c].timer = "armed"
        /\ sockets[call[c].ws] = "closed"
        /\ call[c].id \in DOMAIN pending /\ pending[call[c].id] = c

\* C10: every invocation of call() is eventually settled, once the event loop
\* runs the queued continuations and the armed timers; and a settled call ended
\* as a result, a peer error, a request timeout, no peer, or server closed.
C10_EveryCallSettles ==
    /\ \A c \in Calls : (call[c].pc # "idle") ~> (call[c].pc = "done")
    /\ [](\A c \in Calls :
             call[c].pc = "done"
             => \/ call[c].outcome.kind \in {"resolved", "RpcError"}
                \/ call[c].outcome \in {Error("request timeout"), Error("server closed"),
                                        Error("no Resonite client connected")})

\* A call waited for a connection, was sent once one opened, and was settled.
C10_Witness ==
    \E c \in Calls :
        /\ call[c].pc = "done"
        /\ call[c].connectTimer = "cleared"
        /\ call[c].ws # 0
        /\ call[c].outcome # Unsettled

\* the entry of the pending table that call c registered is still in it
HasEntry(c, table) == \E id \in DOMAIN table : table[id] = c

\* C11: a call reaches at most one terminal outcome and its entry is removed
\* once.  An entry is registered only by the call being sent; a call that has
\* reached its outcome has no entry and no armed timer left, so that neither a
\* response, nor a timer, nor close() acts on it again: no later step changes
\* its outcome, its timers or anything else of it, and its entry never returns.
C11_SettledOnce ==
    [][\A c \in Calls :
          /\ (~HasEntry(c, pending) /\ HasEntry(c, pending'))
                => call[c].pc \in {"idle", "resumed"} /\ call'[c].pc = "sent"
          /\ call'[c].pc = "done"
                => /\ ~HasEntry(c, pending')
                   /\ call'[c].timer # "armed" /\ call'[c].connectTimer # "armed"
                   /\ call'[c].outcome # Unsettled
          /\ call[c].pc = "done"
                => call'[c] = call[c] /\ ~HasEntry(c, pending')]_vars

\* One call was resolved by its response and another ended by its timer; then a
\* response for the id of the timed-out call arrived late, or close() ran.
C11_Witness ==
    \E c, d \in Calls :
        /\ call[c].outcome.kind = "resolved"
        /\ call[d].outcome = Error("request timeout")
        /\ closes >= 1 \/ lastMessage.text = OkText[call[d].id]

\* C12: the id allocated for a call is not in the pending table at that moment,
\* so that registering the entry overwrites no entry of another call.
C12_FreshId ==
    [][\A c \in Calls :
          (call[c].pc # "sent" /\ call'[c].pc = "sent")
          => call'[c].id \notin DOMAIN pending]_vars

----------------------------------------------------------------------------
(* Claims about inbound frames *)

\* the frame a step sent over ws: <<frame>>, or <<>> when it sent none
SentOn(ws) ==
    IF outbox'[ws] = outbox[ws] THEN <<>>
    ELSE <<outbox'[ws][Len(outbox'[ws])]>>

\* a step sends at most one frame over a connection, after the earlier ones
AppendsOnly ==
    \A ws \in Conns :
        \/ outbox'[ws] = outbox[ws]
        \/ outbox'[ws] = Append(outbox[ws], outbox'[ws][Len(outbox'[ws])])

\* field key of the frame a text decodes to, as a set: empty when the frame has
\* no such field or the text does not decode
Field(text, key) ==
    LET d == FlatKV_decode(text)
    IN IF ~d.ok THEN {}
       ELSE IF ~Has(d.value, key) THEN {}
       ELSE {Get(d.value, key)}

IsResponseFrame(text) == Field(text, K_type) = {W("response")}

\* running without its i-th invocation
Without(i) == SubSeq(running, 1, i - 1) \o SubSeq(running, i + 1, Len(running))

\* the step is the 'message' callback of ws receiving a valid request
ReceivesRequest(ws) ==
    /\ lastMessage'.ws = ws
    /\ lastMessage'.text \in RequestTexts

\* the request just received
ReceivedRequest == parseRequest(Decoded[lastMessage'.text].value).value

\* C13: a valid request gets exactly one response, on its own connection.  The
\* step that receives it either answers at once (no handler) or starts exactly
\* one handler invocation and sends nothing; the step that ends an invocation
\* removes it and sends exactly one response frame on the connection of its
\* request and nothing elsewhere (nothing at all once that connection has
\* closed); and no other step sends a response frame or ends an invocation.
C13_OneResponsePerRequest ==
    [][/\ AppendsOnly
       /\ \A ws \in Conns :
             ReceivesRequest(ws)
             => IF ReceivedRequest.method \in handlers
                THEN /\ running' = Append(running, [ws |-> ws, req |-> ReceivedRequest])
                     /\ outbox' = outbox
                ELSE /\ running' = running
                     /\ SentOn(ws) # <<>> /\ IsResponseFrame(SentOn(ws)[1])
                     /\ \A v \in Conns \ {ws} : SentOn(v) = <<>>
       /\ (~IsMessageStep /\ running' # running)
             => \E i \in 1..Len(running) :
                   LET ws == running[i].ws
                   IN /\ running' = Without(i)
                      /\ \A v \in Conns \ {ws} : SentOn(v) = <<>>
                      /\ IF sockets[ws] = "open"
                         THEN SentOn(ws) # <<>> /\ IsResponseFrame(SentOn(ws)[1])
                         ELSE SentOn(ws) = <<>>
       /\ (~IsMessageStep /\ running' = running)
             => \A ws \in Conns : SentOn(ws) # <<>> => ~IsResponseFrame(SentOn(ws)[1])]_vars

\* Two requests arrived on one connection, both handlers have ended, and the
\* connection carries exactly the two responses.
C13_Witness ==
    /\ running = <<>>
    /\ handlers # {}
    /\ \E ws \in Conns :
          /\ Len(outbox[ws]) = 2
          /\ IsResponseFrame(outbox[ws][1]) /\ IsResponseFrame(outbox[ws][2])
          /\ Field(outbox[ws][1], K_status) = {W("ok")}
          /\ Field(outbox[ws][2], K_status) = {W("error")}
          /\ Field(outbox[ws][2], K_message) = {W("boom")}

\* C14: the response to a request with id X is a frame of type response with
\* id X, and of status ok when the handler returned, whatever map it returned.
C14_ResponseEchoesId ==
    [][\A i \in 1..Len(running), result \in HandlerResults :
          (/\ Len(running') < Len(running)
           /\ sockets[running[i].ws] = "open"
           /\ HandlerReturn(i, result))
          => LET sent == SentOn(running[i].ws)
             IN /\ sent # <<>>
                /\ Field(sent[1], K_type) = {W("response")}
                /\ Field(sent[1], K_id) = {running[i].req.id}
                /\ Field(sent[1], K_status) = {W("ok")}]_vars

\* C15: a valid request for a method without handler is answered in the same
\* step by an error response with the request's id and the message 'method not
\* implemented', and no handler invocation starts.
C15_MethodNotImplemented ==
    [][\A ws \in Conns :
          (ReceivesRequest(ws) /\ ReceivedRequest.method \notin handlers)
          => /\ SentOn(ws) # <<>>
             /\ LET d == FlatKV_decode(SentOn(ws)[1])
                IN /\ d.ok
                   /\ parseResponse(d.value) =
                         Ok([id |-> ReceivedRequest.id, status |-> "error",
                             message |-> MethodNotImplemented])
             /\ outbox'[ws] = Append(outbox[ws], SentOn(ws)[1])
             /\ running' = running]_vars

\* A request for echo arrived before any handler was registered and was answered.
C15_Witness ==
    /\ lastMessage.text \in RequestTexts
    /\ handlers = {}
    /\ running = <<>>
    /\ Len(outbox[lastMessage.ws]) = 1
    /\ Field(outbox[lastMessage.ws][1], K_message) = {MethodNotImplemented}

\* the step is the 'message' callback of ws receiving text
Receives(ws, text) == lastMessage'.ws = ws /\ lastMessage'.text = text

\* the frame sent over ws in this step is an error response with this id and message
SendsError(ws, id, message) ==
    /\ SentOn(ws) # <<>>
    /\ outbox'[ws] = Append(outbox[ws], SentOn(ws)[1])
    /\ Field(SentOn(ws)[1], K_type) = {W("response")}
    /\ Field(SentOn(ws)[1], K_id) = {id}
    /\ Field(SentOn(ws)[1], K_status) = {W("error")}
    /\ Field(SentOn(ws)[1], K_message) = {message}

\* C16: a handler that throws causes one error response for its request, with
\* the message of the error, on the request's connection (none once that
\* connection has closed), and nothing else changes: the pending table, the
\* connections, the registry, the outbound calls and the other invocations in
\* flight stay as they are.
C16_HandlerThrows ==
    [][\A i \in 1..Len(running), message \in HandlerErrors :
          (Len(running') < Len(running) /\ HandlerThrow(i, message))
          => LET ws == running[i].ws
             IN /\ IF sockets[ws] = "open"
                   THEN SendsError(ws, running[i].req.id, message)
                   ELSE SentOn(ws) = <<>>
                /\ \A v \in Conns \ {ws} : SentOn(v) = <<>>
                /\ running' = Without(i)
                /\ UNCHANGED <<pending, clients, sockets, handlers, call, waits,
                               connectionWaiters, listening>>]_vars

\* A handler threw 'boom' and its request was answered with it, while another
\* request is still with its handler and an outbound call is still pending.
C16_Witness ==
    /\ Len(running) = 1
    /\ DOMAIN pending # {}
    /\ \E c \in Calls : call[c].pc = "sent"
    /\ \E ws \in Conns :
          /\ Len(outbox[ws]) >= 1
          /\ Field(outbox[ws][Len(outbox[ws])], K_status) = {W("error")}
          /\ Field(outbox[ws][Len(outbox[ws])], K_message) = {W("boom")}

\* C17: a text that does not decode is answered on its connection by one error
\* response with an empty id carrying the decoder's message; no handler
\* invocation starts, and the pending table and the calls are unchanged.
C17_DecodeFailure ==
    [][\A ws \in Conns, text \in UndecodableTexts :
          Receives(ws, text)
          => /\ ~Decoded[text].ok
             /\ SendsError(ws, <<>>, Decoded[text].message)
             /\ \A v \in Conns \ {ws} : SentOn(v) = <<>>
             /\ UNCHANGED <<running, pending, call, clients, sockets>>]_vars

\* A text with a broken escape in a value arrived while a call was pending, and
\* was answered.
C17_Witness ==
    /\ lastMessage.text = BadValue
    /\ DOMAIN pending # {}
    /\ Len(outbox[lastMessage.ws]) >= 1
    /\ Field(outbox[lastMessage.ws][Len(outbox[lastMessage.ws])], K_id) = {<<>>}

\* the texts of type response that parseResponse rejects
UnparseableResponses == InvalidResponseTexts \cup {FlatKV_encode(StatusDone)}

\* C18: a frame of type response that does not parse as a response (no id, an
\* id of more than 64 characters, a status other than ok and error) is dropped:
\* nothing is sent, and no entry, timer, call or connection changes.
C18_InvalidResponseDropped ==
    [][\A ws \in Conns, text \in UnparseableResponses :
          Receives(ws, text)
          => /\ Decoded[text].ok
             /\ Get(Decoded[text].value, K_type) = W("response")
             /\ ~parseResponse(Decoded[text].value).ok
             /\ UNCHANGED <<pending, call, outbox, running, clients, sockets, handlers,
                            connectionWaiters, waits, listening, closes>>]_vars

\* A response with status "done" arrived for the id of a pending call, which
\* stays pending with its timer armed.
C18_Witness ==
    /\ lastMessage.text = FlatKV_encode(StatusDone)
    /\ \E c \in Calls :
          /\ call[c].id = W(IdWords[1])
          /\ call[c].pc = "sent" /\ call[c].timer = "armed"
          /\ call[c].id \in DOMAIN pending

\* C19: a decoded frame that is no response and fails parseRequest (no method,
\* no id, another type, no type) is answered by one error response whose id is
\* the frame's id field, empty when the frame has none, with parseRequest's
\* message; no handler invocation starts.
C19_InvalidRequest ==
    [][\A ws \in Conns, text \in InvalidRequestTexts :
          Receives(ws, text)
          => LET record == Decoded[text].value
             IN /\ ~parseRequest(record).ok
                /\ SendsError(ws, IF Has(record, K_id) THEN Get(record, K_id) ELSE <<>>,
                              parseRequest(record).message)
                /\ \A v \in Conns \ {ws} : SentOn(v) = <<>>
                /\ UNCHANGED <<running, pending, call, clients, sockets>>]_vars

\* A frame of type event with id r1 arrived while a handler was registered,
\* and was answered with that id.
C19_Witness ==
    /\ lastMessage.text = FlatKV_encode(<<<<K_type, W("event")>>, <<K_id, W("r1")>>>>)
    /\ handlers # {}
    /\ Len(outbox[lastMessage.ws]) >= 1
    /\ Field(outbox[lastMessage.ws][Len(outbox[lastMessage.ws])], K_id) = {W("r1")}
    /\ Field(outbox[lastMessage.ws][Len(outbox[lastMessage.ws])], K_message)
          = {<<"not", SP, "a", SP, "request">>}

----------------------------------------------------------------------------
(* Claims about waiting for a connection *)

\* the step opens a connection
ConnectionOpens == Len(clients') > Len(clients)

\* C20: waitForConnection resolves at once when a connection is active.
\* Otherwise it waits: it resolves in the step in which the next connection
\* opens, or is rejected with 'no Resonite client connected' when its timer
\* fires first; nothing else settles it, a settled invocation never changes
\* again, and every waiting invocation is settled in the end.
C20_WaitForConnection ==
    /\ [][\A w \in Waits :
             /\ (waits[w].pc = "idle" /\ waits'[w] # waits[w])
                   => IF clients # <<>>
                      THEN /\ waits'[w] = [NoWait EXCEPT !.pc = "done",
                                                         !.outcome = [kind |-> "resolved"]]
                           /\ connectionWaiters' = connectionWaiters
                      ELSE /\ waits'[w] = [NoWait EXCEPT !.pc = "awaiting",
                                                         !.timer = "armed"]
                           /\ connectionWaiters' = Append(connectionWaiters, WaiterOf(w))
             /\ waits[w].pc = "awaiting"
                   => /\ clients = <<>>
                      /\ ConnectionOpens
                            => /\ waits'[w].outcome = [kind |-> "resolved"]
                               /\ waits'[w].timer = "cleared"
                               /\ waits'[w].pc = "done"
                      /\ (waits'[w] # waits[w] /\ ~ConnectionOpens)
                            => /\ waits'[w].outcome = Error("no Resonite client connected")
                               /\ waits'[w].timer = "fired"
                               /\ waits'[w].pc = "done"
             /\ waits[w].pc = "done"
                   => waits'[w] = waits[w] /\ waits[w].outcome # Unsettled]_vars
    /\ \A w \in Waits : (waits[w].pc = "awaiting") ~> (waits[w].pc = "done")

\* Two invocations waited; the timer of one fired, then a connection opened and
\* resolved the other, running the stale waiter of the first without effect.
C20_Witness ==
    \E w, v \in Waits :
        /\ waits[w].outcome = [kind |-> "resolved"] /\ waits[w].timer = "cleared"
        /\ waits[v].outcome = Error("no Resonite client connected")
        /\ waits[v].timer = "fired"
        /\ clients # <<>>

----------------------------------------------------------------------------
(* Claims about connections *)

\* call c has a waiter in the queue
Queued(c) == \E i \in 1..Len(connectionWaiters) : connectionWaiters[i] = c

\* C21: the step that opens a connection adds it to the active set, empties
\* the queue of waiters and releases every waiting call, each once: a call
\* becomes released only in such a step and only from waiting.  The released
\* calls continue in the order in which they were queued (calls are invoked in
\* the order of their numbers), and each sends its request over the connection
\* just opened, the only one of the active set.
C21_ReleaseOnOpen ==
    [][/\ ConnectionOpens
          => /\ \E ws \in Conns : sockets[ws] = "new" /\ clients' = Append(clients, ws)
             /\ connectionWaiters' = <<>>
             /\ \A c \in Calls :
                   IF call[c].pc = "awaitConn"
                   THEN /\ Queued(c)
                        /\ call'[c].pc = "resumed" /\ call'[c].connectTimer = "cleared"
                        /\ call'[c].outcome = Unsettled
                   ELSE call'[c] = call[c]
       /\ \A c \in Calls :
             /\ (call[c].pc # "resumed" /\ call'[c].pc = "resumed")
                   => ConnectionOpens /\ call[c].pc = "awaitConn"
             /\ (call[c].pc = "resumed" /\ call'[c] # call[c])
                   => /\ Len(clients) = 1
                      /\ call'[c].pc = "sent" /\ call'[c].ws = clients[1]
                      /\ outbox' = [outbox EXCEPT ![clients[1]] =
                                       Append(@, RequestText[call[c].in, call'[c].id])]
                      /\ \A d \in Calls : d < c => call[d].pc # "resumed"]_vars

\* Two calls waited; one connection opened and released both, and they sent
\* their requests over it in the order in which they had been queued.
C21_Witness ==
    /\ MaxCalls >= 2
    /\ call[1].connectTimer = "cleared" /\ call[2].connectTimer = "cleared"
    /\ call[1].pc = "sent" /\ call[2].pc = "sent"
    /\ call[1].ws = call[2].ws
    /\ outbox[call[1].ws] = <<RequestText[call[1].in, call[1].id],
                              RequestText[call[2].in, call[2].id]>>
    /\ call[1].in # call[2].in

\* C22: with more than one connection open, a call sends its request frame
\* over the connection opened last.
C22_LatestConnection ==
    [][\A c \in Calls :
          (call[c].pc # "sent" /\ call'[c].pc = "sent" /\ Len(clients) > 1)
             => /\ call'[c].ws = clients[Len(clients)]
                /\ outbox'[clients[Len(clients)]]
                      = Append(outbox[clients[Len(clients)]],
                               RequestText[call'[c].in, call'[c].id])]_vars

----------------------------------------------------------------------------
(* The codec on its own: a function applied to an argument *)

\* the state of the server, which no function of the codec touches
server == <<clients, connectionWaiters, pending, handlers, listening, sockets,
            outbox, call, running, closes, waits, lastMessage>>

\* Keys of a FlatRecord: words of [A-Za-z0-9._-], among them the name of the
\* prototype accessor, and the empty key
CodecKeys == {W("text"), W("a.b_c-1"), W("__proto__"), <<>>}

\* Values: empty, plain, each separator, '%', a literal escape, control
\* characters, characters beyond ASCII, a mixture
CodecValues ==
    {<<>>, W("hello"), <<US>>, <<GS>>, <<RS>>, <<PCT>>, <<PCT, "4", "1">>, <<"LF">>,
     <<"DEL">>, <<E_ACUTE>>, <<REPLACEMENT>>, <<LONE_SURROGATE>>,
     <<"a", SP, US, "b", GS, PCT, E_ACUTE>>}

\* the most entries of a record given to FlatKV.encode
MaxEntries == 2

\* the records of at most MaxEntries entries, keys unique
RECURSIVE RecordsOf(_)
RecordsOf(n) ==
    IF n = 0 THEN {<<>>}
    ELSE LET shorter == RecordsOf(n - 1)
         IN shorter \cup
            {Append(r, <<k, v>>) : r \in {s \in shorter : Len(s) = n - 1},
                                   k \in CodecKeys, v \in CodecValues}

Frames == {r \in RecordsOf(MaxEntries) :
              \A i, j \in 1..Len(r) : r[i][1] = r[j][1] => i = j}

Application(fn, arg, out) == [fn |-> fn, arg |-> arg, out |-> out]

\* FlatKV.encode(record), record the argument
ApplyEncode ==
    /\ "frame" \in DOMAIN input
    /\ applied = <<>>
    /\ applied' = <<Application("FlatKV.encode", input.frame, FlatKV_encode(input.frame))>>
    /\ UNCHANGED <<input, server>>

\* FlatKV.decode(text), text the argument or what FlatKV.encode returned
ApplyDecode ==
    /\ \/ "text" \in DOMAIN input /\ applied = <<>>
       \/ Len(applied) = 1 /\ applied[1].fn = "FlatKV.encode"
    /\ LET text == IF applied = <<>> THEN input.text ELSE applied[1].out
       IN applied' = Append(applied, Application("FlatKV.decode", text, FlatKV_decode(text)))
    /\ UNCHANGED <<input, server>>

\* Elements of an array: numbers, and strings that are empty, plain, or hold
\* the delimiter or a bracket
ArrayElements ==
    {Num(0), Num(7), Num(-12), Num(105),
     Str(<<>>), Str(W("x")), Str(<<"a", ";", "b">>), Str(<<";">>), Str(<<"]">>)}

\* the most elements of an array given to encodeArray
MaxElements == 2

Arrays == UNION {[1..n -> ArrayElements] : n \in 0..MaxElements}

\* Texts given to decodeArray on their own: with and without brackets
ArrayTexts ==
    {<<"[", "]">>, <<>>, <<"[">>, <<"]">>, <<"1", ";", "2">>, <<"[", "1", ";", "2">>,
     <<"1", ";", "2", "]">>, <<"[", "1", ";", "2", "]">>, <<"[", ";", "]">>,
     <<"[", "x", "]">>, <<"[", "1", ";", ";", "2", "]">>}

\* encodeArray(values), values the argument
ApplyEncodeArray ==
    /\ "array" \in DOMAIN input
    /\ applied = <<>>
    /\ applied' = <<Application("encodeArray", input.array, encodeArray(input.array))>>
    /\ UNCHANGED <<input, server>>

\* decodeArray(text), text the argument or what encodeArray returned
ApplyDecodeArray ==
    /\ \/ "arrayText" \in DOMAIN input /\ applied = <<>>
       \/ Len(applied) = 1 /\ applied[1].fn = "encodeArray"
    /\ LET text == IF applied = <<>> THEN input.arrayText ELSE applied[1].out
       IN applied' = Append(applied, Application("decodeArray", text, decodeArray(text)))
    /\ UNCHANGED <<input, server>>

\* What the peer may have joined before the URL encoding: well-formed pairs,
\* a pair without key/value separator (alone, first, last), a pair with the
\* empty key, an empty pair, an empty value
RawTexts ==
    {<<"text", GS, "hello">>,
     <<"junk">>,
     <<"junk", US, "text", GS, "hello">>,
     <<"text", GS, "hello", US, "junk">>,
     <<"text", GS, "hello", US, "j", SP, "k", US, "id", GS, "r1">>,
     <<GS, "hello">>,
     <<"text", GS>>,
     <<"text", GS, "hello", US, US, "id", GS, "r1">>,
     <<"text", GS, "a", GS, "b">>,
     <<"text", GS, PCT, "4", "1">>,
     <<"text", GS, PCT, "4">>}

\* Texts given to FlatKV.decode on their own
CodecTexts == {encodeURIComponent(raw) : raw \in RawTexts} \cup {<<>>, <<PCT, "1">>}

\* Encoded values given to FlatKV.decodeValue on their own: plain, with
\* well-formed escapes, with a '%' that less than two characters follow, with a
\* '%' that two characters follow which are not both hexadecimal digits
EncodedValues ==
    {<<>>, <<"hello">>, <<PCT, "4", "1">>, <<"a", PCT, "2", "5", "b">>,
     <<PCT, "c", "3", PCT, "A", "9">>, <<PCT, "1", "F">>,
     <<PCT>>, <<PCT, "4">>, <<"a", "b", PCT>>, <<PCT, "4", "1", PCT, "2">>,
     <<PCT, "G", "1">>, <<PCT, "4", "G">>, <<PCT, "Z", "Z">>, <<PCT, PCT, "4", "1">>,
     <<PCT, SP, "4">>, <<PCT, "+", "4">>, <<PCT, "-", "4">>, <<PCT, "0", "x">>,
     <<PCT, "4", "1", PCT, "7", "!", "z">>}

\* FlatKV.decodeValue(value), value the argument
ApplyDecodeValue ==
    /\ "value" \in DOMAIN input
    /\ applied = <<>>
    /\ applied' = <<Application("FlatKV.decodeValue", input.value, decodeValue(input.value))>>
    /\ UNCHANGED <<input, server>>

\* Entries of the records given to parseRequest and parseResponse: each
\* envelope field absent, empty, valid and invalid; the id also of 64 and of 65
\* characters and of a character beyond ASCII
TypeEntries ==
    {<<>>, <<<<K_type, W("request")>>>>, <<<<K_type, W("response")>>>>,
     <<<<K_type, W("Request")>>>>}
IdEntries ==
    {<<>>, <<<<K_id, <<>>>>>>, <<<<K_id, W("r1")>>>>, <<<<K_id, W(Word64)>>>>,
     <<<<K_id, LongId>>>>, <<<<K_id, <<E_ACUTE>>>>>>}
MethodEntries == {<<>>, <<<<K_method, <<>>>>>>, <<<<K_method, W("echo")>>>>}
StatusEntries ==
    {<<>>, <<<<K_status, W("ok")>>>>, <<<<K_status, W("error")>>>>,
     <<<<K_status, W("OK")>>>>, <<<<K_status, W("done")>>>>}
MessageEntries == {<<>>, <<<<K_message, W("boom")>>>>, <<<<K_message, <<>>>>>>}

\* Further top-level keys: none, plain ones, one that differs from a reserved
\* key by case only, keys with the prefix argument. or result.
OtherEntries ==
    {<<>>,
     Hello,
     <<<<K_text, W("hello")>>, <<W("count"), <<"3">>>>>>,
     <<<<W("Type"), W("x")>>, <<W("ID"), W("y")>>>>,
     <<<<ArgumentPrefix \o K_text, W("hello")>>>>,
     <<<<ResultPrefix \o K_text, W("hello")>>>>,
     <<<<K_text, W("hello")>>, <<ArgumentPrefix \o K_text, W("other")>>>>}

EnvelopeRecords ==
    {t \o i \o m \o s \o msg \o o :
        t \in TypeEntries, i \in IdEntries, m \in MethodEntries,
        s \in StatusEntries, msg \in MessageEntries, o \in OtherEntries}

\* parseRequest(record), record the argument
ApplyParseRequest ==
    /\ "record" \in DOMAIN input
    /\ applied = <<>>
    /\ applied' = <<Application("parseRequest", input.record, parseRequest(input.record))>>
    /\ UNCHANGED <<input, server>>

\* parseResponse(record), record the argument
ApplyParseResponse ==
    /\ "record" \in DOMAIN input
    /\ applied = <<>>
    /\ applied' = <<Application("parseResponse", input.record, parseResponse(input.record))>>
    /\ UNCHANGED <<input, server>>

\* the arguments the functions of the codec are applied to
CodecInputs ==
    {[frame |-> f] : f \in Frames}
    \cup {[array |-> v] : v \in Arrays}
    \cup {[arrayText |-> t] : t \in ArrayTexts}
    \cup {[text |-> t] : t \in CodecTexts}
    \cup {[value |-> v] : v \in EncodedValues}
    \cup {[record |-> r] : r \in EnvelopeRecords}

CodecInit ==
    /\ Constructed
    /\ input \in CodecInputs
    /\ applied = <<>>

NextCodec ==
    \/ ApplyEncode
    \/ ApplyDecode
    \/ ApplyEncodeArray
    \/ ApplyDecodeArray
    \/ ApplyDecodeValue
    \/ ApplyParseRequest
    \/ ApplyParseResponse

CodecSpec == CodecInit /\ [][NextCodec]_vars

----------------------------------------------------------------------------
(* Claims about the codec *)

\* FlatKV.decode(FlatKV.encode(f)) was computed
RoundTripDone ==
    /\ Len(applied) = 2
    /\ applied[1].fn = "FlatKV.encode"
    /\ applied[2].fn = "FlatKV.decode"

\* C23: for every frame whose keys are non-empty words of [A-Za-z0-9._-] and
\* whose values are strings of Unicode characters (empty, with either
\* separator, with '%', with control characters, with characters beyond ASCII),
\* decoding the encoded frame gives the frame back.
C23_RoundTrip ==
    LET f == applied[1].arg
    IN (/\ RoundTripDone
        /\ \A i \in 1..Len(f) :
              /\ f[i][1] # <<>>
              /\ \A n \in 1..Len(f[i][2]) : f[i][2][n] # LONE_SURROGATE)
          => /\ applied[2].out.ok
             /\ AsMap(applied[2].out.value) = AsMap(f)

\* decodeArray(encodeArray(v)) was computed
ArrayRoundTripDone ==
    /\ Len(applied) = 2
    /\ applied[1].fn = "encodeArray"
    /\ applied[2].fn = "decodeArray"

\* C24: for every list of numbers and strings, decoding the encoded list gives
\* the list of its elements rendered as strings; the empty list encodes to
\* "[]", and "[]" decodes to the empty list.
C24_ArrayRoundTrip ==
    /\ ArrayRoundTripDone
          => LET v == applied[1].arg
             IN applied[2].out = Ok([i \in 1..Len(v) |-> String(v[i])])
    /\ \A i \in 1..Len(applied) :
          /\ (applied[i].fn = "encodeArray" /\ applied[i].arg = <<>>)
                => applied[i].out = <<"[", "]">>
          /\ (applied[i].fn = "decodeArray" /\ applied[i].arg = <<"[", "]">>)
                => applied[i].out = Ok(<<>>)

\* the words of the keys and values given to FlatKV.encode: runs of [A-Za-z0-9._-]
Words == {"text", "a.b_c-1", "__proto__", "hello"}

\* a printable ASCII character (0x20 to 0x7E), or a word of such characters
Printable(sym) ==
    \/ sym \in Words
    \/ IsChar(sym) /\ CodeOf(sym) >= 32 /\ CodeOf(sym) <= 126

\* C25: the text FlatKV.encode produces consists of printable ASCII characters
\* only: no raw pair separator (0x1F), no raw key/value separator (0x1D), no
\* other control character, nothing beyond ASCII.
C25_EncodedIsPrintable ==
    \A i \in 1..Len(applied) :
       applied[i].fn = "FlatKV.encode"
          => \A n \in 1..Len(applied[i].out) : Printable(applied[i].out[n])

\* A frame of two entries was encoded whose values hold both separators, a
\* control character and characters beyond ASCII.
C25_Witness ==
    /\ Len(applied) >= 1
    /\ applied[1].fn = "FlatKV.encode"
    /\ Len(applied[1].arg) = 2
    /\ applied[1].arg[1][2] = <<"a", SP, US, "b", GS, PCT, E_ACUTE>>
    /\ applied[1].arg[2][2] = <<"LF">>
    /\ \E n \in 1..Len(applied[1].out) : applied[1].out[n] = PCT

\* the pairs FlatKV.decode finds in a text that decodeURIComponent accepts
PairsOf(text) == Split(decodeURIComponent(text).value, US)

\* C26: FlatKV.decode fails whenever the URL-decoded text has a non-empty pair
\* without key/value separator; it neither skips nor accepts such a pair.
C26_PairWithoutSeparatorFails ==
    \A i \in 1..Len(applied) :
       (/\ applied[i].fn = "FlatKV.decode"
        /\ applied[i].arg # <<>>
        /\ decodeURIComponent(applied[i].arg).ok
        /\ \E n \in 1..Len(PairsOf(applied[i].arg)) :
              LET pair == PairsOf(applied[i].arg)[n]
              IN pair # <<>> /\ IndexOf(pair, GS) = -1)
          => ~applied[i].out.ok

\* Reading the value from index i on as the claim does: some '%' is followed
\* by fewer than two characters, or by two that are not both hexadecimal digits
RECURSIVE MalformedFrom(_, _)
MalformedFrom(value, i) ==
    IF i > Len(value) THEN FALSE
    ELSE IF value[i] # PCT THEN MalformedFrom(value, i + 1)
    ELSE IF i + 2 > Len(value) THEN TRUE
    ELSE IF ~(IsHex(value[i + 1]) /\ IsHex(value[i + 2])) THEN TRUE
    ELSE MalformedFrom(value, i + 3)

\* C27: decoding a value fails whenever it holds a malformed percent sequence:
\* a '%' followed by fewer than two characters, or by two characters that are
\* not both hexadecimal digits.
C27_MalformedEscapeFails ==
    \A i \in 1..Len(applied) :
       (applied[i].fn = "FlatKV.decodeValue" /\ MalformedFrom(applied[i].arg, 1))
          => ~applied[i].out.ok

----------------------------------------------------------------------------
(* Claims about the envelopes *)

\* a string of ASCII characters: characters of the table, words of them
IsAscii(str) == \A n \in 1..Len(str) : str[n] \notin DOMAIN Utf8Bytes

\* C28: parseRequest accepts a frame if and only if its type is "request", its
\* id is present and consists of 1 to 64 ASCII characters, and its method is
\* present and not empty; every other frame fails with an error.
C28_ParseRequestAccepts ==
    \A i \in 1..Len(applied) :
       applied[i].fn = "parseRequest"
          => LET record == applied[i].arg
             IN applied[i].out.ok
                   <=> /\ Has(record, K_type) /\ Get(record, K_type) = W("request")
                       /\ Has(record, K_id)
                       /\ Length(Get(record, K_id)) >= 1
                       /\ Length(Get(record, K_id)) <= MaxIdLength
                       /\ IsAscii(Get(record, K_id))
                       /\ Has(record, K_method) /\ Get(record, K_method) # <<>>

\* the entries of a record whose key is none of type, id, method, status, message
NonReserved(record) ==
    {<<record[n][1], record[n][2]>> : n \in {m \in 1..Len(record) : record[m][1] \notin ReservedKeys}}

\* C29: parseRequest returns as arguments exactly the record's entries whose
\* key is none of type, id, method, status and message, each under its own key
\* with its own value; parseResponse with status ok returns exactly those
\* entries as result fields.  Keys differing by case only are different keys.
C29_PassThrough ==
    \A i \in 1..Len(applied) :
       /\ (applied[i].fn = "parseRequest" /\ applied[i].out.ok)
             => AsMap(applied[i].out.value.args) = NonReserved(applied[i].arg)
       /\ (applied[i].fn = "parseResponse" /\ applied[i].out.ok
              /\ applied[i].out.value.status = "ok")
             => AsMap(applied[i].out.value.result) = NonReserved(applied[i].arg)

\* C30: parseResponse accepts a frame if and only if its type is "response",
\* its id has 1 to 64 characters and its status is exactly "ok" or exactly
\* "error"; for the status error it returns the id, the frame's message, or
\* the message "error" when the frame has none, and no result fields.
C30_ParseResponseAccepts ==
    \A i \in 1..Len(applied) :
       applied[i].fn = "parseResponse"
          => LET record == applied[i].arg
                 out == applied[i].out
                 isError == Has(record, K_status) /\ Get(record, K_status) = W("error")
                 isOk == Has(record, K_status) /\ Get(record, K_status) = W("ok")
             IN /\ out.ok
                      <=> /\ Has(record, K_type) /\ Get(record, K_type) = W("response")
                          /\ Has(record, K_id)
                          /\ Length(Get(record, K_id)) >= 1
                          /\ Length(Get(record, K_id)) <= MaxIdLength
                          /\ isOk \/ isError
                /\ (out.ok /\ isError)
                      => out.value =
                            [id |-> Get(record, K_id), status |-> "error",
                             message |-> IF Has(record, K_message)
                                         THEN Get(record, K_message)
                                         ELSE W("error")]

\* parseResponse returned the message "error" for a response with the status
\* error, an id of 64 characters and no message.
C30_Witness ==
    /\ Len(applied) = 1
    /\ applied[1].fn = "parseResponse"
    /\ ~Has(applied[1].arg, K_message)
    /\ Has(applied[1].arg, K_id)
    /\ Get(applied[1].arg, K_id) = W(Word64)
    /\ applied[1].out.ok
    /\ applied[1].out.value.status = "error"
    /\ applied[1].out.value.message = W("error")

----------------------------------------------------------------------------
(* Claims about the pending table *)

\* the calls sent under the id that have no outcome yet
InFlight(id) == {c \in Calls : call[c].pc = "sent" /\ call[c].id = id}

\* C31: in every state, the pending table holds an entry with an armed timer
\* for an id if and only if exactly one call sent under that id has no outcome
\* yet; no call with an outcome still has an entry or an armed timer, and no
\* call sent and without outcome lacks its entry.
C31_PendingMatchesCalls ==
    /\ \A id \in IdSet :
          (id \in DOMAIN pending /\ call[pending[id]].timer = "armed")
             <=> Cardinality(InFlight(id)) = 1
    /\ \A c \in Calls :
          /\ call[c].pc = "done"
                => /\ call[c].timer # "armed"
                   /\ \A id \in DOMAIN pending : pending[id] # c
          /\ call[c].pc = "sent"
                => call[c].id \in DOMAIN pending /\ pending[call[c].id] = c

\* the step gives call c its outcome by a response or by its request timer
ResolvedOrTimedOut(c) ==
    /\ call[c].outcome = Unsettled
    /\ \/ call'[c].outcome.kind \in {"resolved", "RpcError"}
       \/ call'[c].outcome = Error("request timeout")

\* C32: a step that gives one call its outcome by its response or by its
\* request timer removes only that call's entry and cancels only that call's
\* timer: every other entry, every other call with its timers, the active
\* connections and the registered handlers stay as they were.
C32_OnlyOwnEntry ==
    [][\A c \in Calls :
          ResolvedOrTimedOut(c)
             => /\ ~HasEntry(c, pending')
                /\ call'[c].timer \in {"cleared", "fired"}
                /\ \A id \in DOMAIN pending :
                      pending[id] # c => id \in DOMAIN pending' /\ pending'[id] = pending[id]
                /\ DOMAIN pending' \subseteq DOMAIN pending
                /\ \A d \in Calls : d # c => call'[d] = call[d]
                /\ clients' = clients
                /\ handlers' = handlers]_vars


\* a handler invocation is suspended: its 'message' callback awaits it
Suspended == running # <<>>

\* the step is the 'message' callback of ws receiving one of the two requests
ReceivesEither(ws) ==
    /\ lastMessage'.ws = ws
    /\ lastMessage'.text \in RequestTexts \cup {FlatKV_encode(OtherRequest)}

\* C33: while the handler of an inbound request is suspended the coordinator
\* keeps processing: a response resolves its pending call, an outbound call is
\* sent, another request for a registered method starts its own handler; and
\* the suspended handlers may end in any order, the response to each carrying
\* the id of its own request.
C33_ConcurrentHandlers ==
    [][Suspended =>
         /\ \A id \in IdSet :
               (/\ IsMessageStep
                /\ lastMessage'.text = OkText[id]
                /\ id \in DOMAIN pending)
               => /\ call'[pending[id]].outcome.kind = "resolved"
                  /\ id \notin DOMAIN pending'
                  /\ running' = running
         /\ \A c \in Calls :
               (call[c].pc = "idle" /\ call'[c].pc # "idle" /\ clients # <<>>)
               => /\ call'[c].pc = "sent"
                  /\ SentOn(call'[c].ws) = <<RequestText[call'[c].in, call'[c].id]>>
                  /\ running' = running
         /\ \A ws \in Conns :
               (ReceivesEither(ws) /\ ReceivedRequest.method \in handlers)
               => running' = Append(running, [ws |-> ws, req |-> ReceivedRequest])
         /\ \A i \in 1..Len(running) :
               (running' = Without(i) /\ sockets[running[i].ws] = "open")
               => LET sent == SentOn(running[i].ws)
                  IN /\ sent # <<>>
                     /\ Field(sent[1], K_type) = {W("response")}
                     /\ Field(sent[1], K_id) = {running[i].req.id}]_vars

----------------------------------------------------------------------------
(* Claims about close() and the connections *)

\* call c is made and not settled: it awaits a connection or its response
Outstanding(c) == call[c].pc \in {"awaitConn", "resumed", "sent"}

\* call c ended in an Error: no peer, request timeout or server closed
Failed(c) == call[c].pc = "done" /\ call[c].outcome.kind = "Error"

\* C34: a call outstanding when close() runs eventually fails, once the event
\* loop runs the armed timers, and never succeeds: close() fails at once each
\* call that has an entry; a call that awaits a connection is left to its
\* connect timer and fails with the no-peer error when that timer fires, never
\* being released; after close() no outstanding call gets a result and a failed
\* call stays failed.
C34_CloseFailsOutstanding ==
    /\ \A c \in Calls : (closes > 0 /\ Outstanding(c)) ~> Failed(c)
    /\ [][\A c \in Calls :
             /\ (IsCloseStep /\ HasEntry(c, pending))
                   => call'[c].outcome = Error("server closed") /\ call'[c].pc = "done"
             /\ (closes' > 0 /\ Outstanding(c))
                   => call'[c].outcome.kind \in {"unsettled", "Error"}
             /\ (closes' > 0 /\ call[c].pc = "awaitConn" /\ call'[c] # call[c])
                   => /\ call'[c].outcome = Error("no Resonite client connected")
                      /\ call'[c].pc = "done"
                      /\ call'[c].connectTimer = "fired"
                      /\ call'[c].ws = 0
             /\ (closes > 0 /\ Failed(c)) => call'[c].outcome = call[c].outcome]_vars

\* close() ran while one call had an entry and another awaited a connection (the
\* connection of the first had closed): the first ended with 'server closed',
\* the second with the no-peer error of its connect timer.
C34_Witness ==
    /\ closes > 0
    /\ \E c, d \in Calls :
          /\ call[c].outcome = Error("server closed")
          /\ call[d].outcome = Error("no Resonite client connected")
          /\ call[d].connectTimer = "fired"
          /\ c < d

\* ws is in the active set cl
Active(ws, cl) == \E i \in 1..Len(cl) : cl[i] = ws

\* the step is the callback of a request timer, a 'message' callback, or the
\* end of a handler invocation
IsTimeoutStep == \E c \in Calls : call[c].timer = "armed" /\ call'[c].timer = "fired"
IsHandlerEnd == Len(running') < Len(running)

\* C35: a connection leaves the active set, or stops being open, only in the
\* step of its own close event or in a run of close(); the callback of a
\* request timer, the receipt of any frame (undecodable and invalid ones
\* included) and the end of a handler (a failure included) leave the active set
\* and every connection as they were.  No step of the coordinator depends on
\* elapsed idle time.
C35_NeverDropsConnection ==
    [][/\ \A ws \in Conns :
             (Active(ws, clients) /\ ~Active(ws, clients'))
             => \/ sockets[ws] = "open" /\ sockets'[ws] = "closed"
                \/ IsCloseStep
       /\ \A ws \in Conns :
             (sockets[ws] = "open" /\ sockets'[ws] # "open")
             => \/ sockets'[ws] = "closed" /\ clients' = SetDelete(clients, ws)
                \/ IsCloseStep /\ sockets'[ws] = "terminated"
       /\ (IsTimeoutStep \/ IsMessageStep \/ IsHandlerEnd)
             => clients' = clients /\ sockets' = sockets]_vars

\* A call timed out and a handler failed, and the connection both went over is
\* still open and active.
C35_Witness ==
    \E c \in Calls, ws \in Conns :
        /\ call[c].timer = "fired" /\ call[c].ws = ws
        /\ sockets[ws] = "open" /\ Active(ws, clients)
        /\ \E i \in 1..Len(outbox[ws]) :
              /\ Field(outbox[ws][i], K_status) = {W("error")}
              /\ Field(outbox[ws][i], K_message) = {W("boom")}
        /\ \E i \in 1..Len(outbox[ws]) :
              /\ Field(outbox[ws][i], K_status) = {W("error")}
              /\ Field(outbox[ws][i], K_id) = {<<>>}

\* C36: a response is paired with a call by its id alone: a well-formed
\* response whose id is in the pending table settles the call of that entry
\* (a result for status ok, the peer's error for status error), removes the
\* entry and cancels its timer, whichever open connection delivered it, the
\* connection of the request or another one.
C36_CorrelationById ==
    [][\A ws \in Conns, id \in IdSet :
          (/\ IsMessageStep
           /\ lastMessage'.ws = ws
           /\ lastMessage'.text \in {OkText[id], ErrorText[id]}
           /\ id \in DOMAIN pending)
          => LET c == pending[id]
             IN /\ call'[c].pc = "done"
                /\ call'[c].outcome.raw = lastMessage'.text
                /\ call'[c].outcome.kind =
                      (IF lastMessage'.text = OkText[id] THEN "resolved" ELSE "RpcError")
                /\ call'[c].timer = "cleared"
                /\ id \notin DOMAIN pending'
                /\ \A d \in Calls : d # c => call'[d] = call[d]]_vars

\* The last frame received came over the second connection, which sent no
\* request, and is the response that gave its result to a call whose request
\* went over the first connection.
C36_Witness ==
    \E c \in Calls :
        /\ call[c].outcome.kind = "resolved"
        /\ call[c].ws = 1
        /\ lastMessage.ws = 2
        /\ outbox[2] = <<>>
        /\ lastMessage.text = call[c].outcome.raw
        /\ \A d \in Calls : d # c => call[d].pc = "idle"

----------------------------------------------------------------------------
(* Claims about the request frame *)

\* C37: the request frame of a call decodes to a frame of type request whose
\* method is the method called and whose id is the key of the entry the call
\* registered, whatever the args, args with the keys type, id or method
\* included.
C37_RequestFrameEnvelope ==
    [][\A c \in Calls :
          (call[c].pc # "sent" /\ call'[c].pc = "sent")
          => LET sent == SentOn(call'[c].ws)
             IN /\ sent # <<>>
                /\ call'[c].id \in DOMAIN pending' /\ pending'[call'[c].id] = c
                /\ Field(sent[1], K_type) = {W("request")}
                /\ Field(sent[1], K_method) = {call'[c].in.method}
                /\ Field(sent[1], K_id) = {call'[c].id}]_vars

----------------------------------------------------------------------------
(* Claims about the queue of waiters *)

NoPeer == Error("no Resonite client connected")

\* the waiter of waitForConnection invocation w is in the queue
QueuedWait(w) == \E i \in 1..Len(connectionWaiters) : connectionWaiters[i] = WaiterOf(w)

\* C38: a call or a waitForConnection whose connect wait failed with the
\* no-peer error stays failed.  Its waiter stays in the queue; the step that
\* opens a connection runs it and takes it off the queue without changing the
\* invocation, sending a frame or registering an entry; and no later step
\* changes the invocation or registers an entry for it: a request frame is
\* sent only by a call that has no outcome yet.
C38_FailedWaitStaysFailed ==
    [][/\ \A c \in Calls :
             call[c].outcome = NoPeer
             => /\ call'[c] = call[c]
                /\ ~HasEntry(c, pending')
                /\ (Queued(c) /\ ConnectionOpens)
                      => /\ connectionWaiters' = <<>>
                         /\ outbox' = outbox
                         /\ pending' = pending
       /\ \A w \in Waits :
             waits[w].outcome = NoPeer
             => /\ waits'[w] = waits[w]
                /\ (QueuedWait(w) /\ ConnectionOpens)
                      => connectionWaiters' = <<>> /\ outbox' = outbox /\ pending' = pending
       /\ \A ws \in Conns :
             (SentOn(ws) # <<>> /\ Field(SentOn(ws)[1], K_type) = {W("request")})
             => \E d \in Calls : /\ call[d].outcome = Unsettled
                                 /\ call[d].pc # "sent" /\ call'[d].pc = "sent"
                                 /\ call'[d].ws = ws]_vars

\* The connect timers of a call and of a waitForConnection fired while their
\* waiters were queued; a connection opened afterwards and ran both waiters:
\* the queue is empty, both invocations are still failed, nothing was sent.
C38_Witness ==
    /\ \E c \in Calls :
          /\ call[c].outcome = NoPeer /\ call[c].connectTimer = "fired"
          /\ call[c].pc = "done" /\ call[c].ws = 0
          /\ ~HasEntry(c, pending)
    /\ \E w \in Waits : waits[w].outcome = NoPeer /\ waits[w].timer = "fired"
    /\ connectionWaiters = <<>>
    /\ clients # <<>>
    /\ \A ws \in Conns : outbox[ws] = <<>>

\* C39: whenever a connection is in the active set the queue of waiters is
\* empty: a waiter is pushed only while no connection is active, and the step
\* that opens a connection empties the queue.
C39_NoWaiterWhileActive ==
    /\ [](clients # <<>> => connectionWaiters = <<>>)
    /\ [][/\ Len(connectionWaiters') > Len(connectionWaiters) => clients = <<>>
          /\ ConnectionOpens => connectionWaiters' = <<>>]_vars

\* A call and a waitForConnection waited in the queue, and the connection that
\* opened released both: the call was sent over it, the queue is empty.
C39_Witness ==
    /\ clients # <<>>
    /\ connectionWaiters = <<>>
    /\ \E c \in Calls : call[c].pc = "sent" /\ call[c].connectTimer = "cleared"
    /\ \E w \in Waits : waits[w].outcome = [kind |-> "resolved"] /\ waits[w].timer = "cleared"
============================================================================
